---- MODULE Spec2Model ----
(***************************************************************************)
(* Model of lab_orchestrator: the request deduplication cache              *)
(* (deduplication.py), its deduplicate_requests wrapper, and the commands  *)
(* table of the persistence layer (db.py).                                 *)
(***************************************************************************)
EXTENDS Integers, Sequences, FiniteSets, TLC

\* ------------------------------------------------------------------ bounds
\* RequestDeduplicator(ttl_seconds, max_size): the instance modelled.
ttl_seconds == 1
max_size == 2
\* time.time() / datetime.utcnow() are modelled as an integer clock 0..MaxTime.
MaxTime == 2
\* a run makes at most MaxCalls calls of the wrapped function
MaxCalls == 3
\* a run makes at most MaxDbCalls calls of DatabaseManager
MaxDbCalls == 3

ReqIds == {"r1", "r2", "r3"}
Threads == {"t1", "t2"}
\* (device_id, action) pairs a caller may submit
Infos == {<<"d1", "a1">>, <<"d2", "a2">>}
\* r1 and r2 are submitted with either pair, r3 with the first only
InfosOf(req_id) == IF req_id = "r3" THEN {<<"d1", "a1">>} ELSE Infos

\* ------------------------------------------------------------------ values
\* Optional[Dict] results: None, {} (empty dict), a non-empty result dict,
\* and the dict {"error": ..., "success": False} written by mark_failed.
None == "None"
EmptyDict == "{}"
OkDict == "{ok}"
ErrorDict == "{error}"
ResultArgs == {None, EmptyDict, OkDict}
\* the placeholder {"status": "processing", "message": ...}
ProcessingResponse == "{status: processing}"
\* a wrapper call that ended with the exception of the wrapped function
Raised == "raise"
\* a wrapper call that ended with a BaseException of the wrapped function that
\* is not an Exception (KeyboardInterrupt, SystemExit, GeneratorExit)
RaisedBaseException == "raise BaseException"
NoReturn == "NoReturn"

\* Python truthiness of an Optional[Dict]: None and {} are falsy.
Truthy(result) == result \notin {None, EmptyDict}

\* `result or {}` (deduplication.py:103)
OrEmpty(result) == IF Truthy(result) THEN result ELSE EmptyDict

\* RequestRecord dataclass
RequestRecord(req_id, timestamp, device_id, action, result, processing) ==
    [req_id |-> req_id, timestamp |-> timestamp, device_id |-> device_id,
     action |-> action, result |-> result, processing |-> processing]

\* stands for "no record" (the None of Optional[RequestRecord])
NoRecord == RequestRecord(None, 0, None, None, None, FALSE)

VARIABLES
    cache,        \* RequestDeduplicator._cache: OrderedDict as a sequence of records, oldest first
    processing,   \* RequestDeduplicator._processing: set of req_ids
    now,          \* the clock read by time.time() and datetime.utcnow()
    threads,      \* per thread: its position in deduplicate_requests.wrapper and its locals
    lock,         \* RequestDeduplicator._lock: the thread inside mark_completed / mark_failed, or None
    runs,         \* per req_id: how many times the wrapped function body has run
    submitted,    \* per req_id: the (device_id, action) pairs submitted through the wrapper
    dropped,      \* req_ids whose entry was removed by the expiry sweep or by eviction
    calls,        \* number of calls started (of the wrapper, of DatabaseManager)
    commands,     \* the commands table: a sequence of rows in insertion order
    sessions,     \* per database session: the DatabaseManager call in progress (numbered) and its return value
    bus,          \* the messages published through SharedMQTT.publish_json, in order
    dlq,          \* the last DeadLetterQueue operation (numbered) and its arguments
    retry,        \* the retried call in progress: its configuration, loop position and outcome
    tables,       \* the devices, heartbeats, module_status and events tables: sets of rows
    cleanup,      \* the last cleanup_old_records call (numbered), its argument and outcome
    health,       \* what the HealthChecker probes (bus client, database, registry) and its last readiness report
    probe,        \* the StartupProbe: module_load_status, startup_complete, startup_errors
    schema        \* the last envelope validation: the validator, the payload and the result

dedupVars == <<cache, processing>>
wrapVars == <<threads, lock, runs, submitted, dropped, calls>>
dbVars == <<commands, sessions>>
dlqVars == <<bus, dlq>>
retryVars == <<retry>>
cleanupVars == <<tables, cleanup>>
healthVars == <<health, probe>>
schemaVars == <<schema>>
moreVars == <<cleanupVars, healthVars, schemaVars>>
extVars == <<dlqVars, retryVars, moreVars>>

\* ------------------------------------------------------ OrderedDict helpers
Has(c, req_id) == \E i \in 1..Len(c) : c[i].req_id = req_id

Index(c, req_id) == CHOOSE i \in 1..Len(c) : c[i].req_id = req_id

Get(c, req_id) == c[Index(c, req_id)]

Keys(c) == {c[i].req_id : i \in 1..Len(c)}

\* OrderedDict.move_to_end(key)
move_to_end(c, req_id) ==
    LET i == Index(c, req_id)
    IN  SubSeq(c, 1, i - 1) \o SubSeq(c, i + 1, Len(c)) \o <<c[i]>>

\* OrderedDict.__setitem__: an existing key keeps its position, a new key goes last
SetItem(c, rec) ==
    IF Has(c, rec.req_id)
    THEN [c EXCEPT ![Index(c, rec.req_id)] = rec]
    ELSE Append(c, rec)

\* ------------------------------------------------ RequestDeduplicator methods
\* Each method is an operator from the state (c = _cache, p = _processing) and
\* the clock t to the new state and the return value.

Expired(rec, t) == t - rec.timestamp > ttl_seconds

\* the loop of _cleanup_expired: the expired entries before the first non-expired one
RECURSIVE LeadingExpired(_, _)
LeadingExpired(c, t) ==
    IF c = <<>> THEN 0
    ELSE IF Expired(Head(c), t) THEN 1 + LeadingExpired(Tail(c), t)
    ELSE 0

\* faulty variant of cleanup_expired: the expired keys stay in _processing
cleanup_expired_keeps_processing(c, p, t) ==
    LET k == LeadingExpired(c, t)
    IN  [cache |-> SubSeq(c, k + 1, Len(c)),
         processing |-> p]

cleanup_expired(c, p, t) ==
    LET k == LeadingExpired(c, t)
        expired_keys == {c[i].req_id : i \in 1..k}
    IN  [cache |-> SubSeq(c, k + 1, Len(c)),
         processing |-> p \ expired_keys]

\* faulty variant of enforce_max_size: the loop stops one entry too early
RECURSIVE enforce_max_size_late(_, _)
enforce_max_size_late(c, p) ==
    IF Len(c) > max_size + 1
    THEN enforce_max_size_late(Tail(c), p \ {Head(c).req_id})
    ELSE [cache |-> c, processing |-> p]

RECURSIVE enforce_max_size(_, _)
enforce_max_size(c, p) ==
    IF Len(c) > max_size
    THEN enforce_max_size(Tail(c), p \ {Head(c).req_id})
    ELSE [cache |-> c, processing |-> p]

\* faulty variant of is_duplicate: the cached record is matched on req_id alone
is_duplicate_by_req_id(c, p, t, req_id, device_id, action) ==
    LET s == cleanup_expired(c, p, t)
    IN  IF Has(s.cache, req_id)
        THEN [cache |-> move_to_end(s.cache, req_id), processing |-> s.processing,
              dup |-> TRUE, rec |-> Get(s.cache, req_id), branch |-> "same"]
        ELSE [cache |-> s.cache, processing |-> s.processing,
              dup |-> FALSE, rec |-> NoRecord, branch |-> "absent"]

\* is_duplicate: returns (is_duplicate, existing_record); branch names the
\* return statement taken (line 56, 60 or 62).
is_duplicate(c, p, t, req_id, device_id, action) ==
    LET s == cleanup_expired(c, p, t)
    IN  IF Has(s.cache, req_id)
        THEN LET record == Get(s.cache, req_id)
                 moved == move_to_end(s.cache, req_id)
             IN  IF record.device_id = device_id /\ record.action = action
                 THEN [cache |-> moved, processing |-> s.processing,
                       dup |-> TRUE, rec |-> record, branch |-> "same"]
                 ELSE [cache |-> moved, processing |-> s.processing,
                       dup |-> FALSE, rec |-> NoRecord, branch |-> "different"]
        ELSE [cache |-> s.cache, processing |-> s.processing,
              dup |-> FALSE, rec |-> NoRecord, branch |-> "absent"]

mark_processing(c, p, t, req_id, device_id, action) ==
    IF req_id \in p
    THEN [cache |-> c, processing |-> p, ret |-> FALSE]
    ELSE LET record == RequestRecord(req_id, t, device_id, action, None, TRUE)
             s == enforce_max_size(SetItem(c, record), p \cup {req_id})
         IN  [cache |-> s.cache, processing |-> s.processing, ret |-> TRUE]

\* stats (lines 172-189): the counts it reports
stats(c, p, t) ==
    [total_cached |-> Len(c),
     processing |-> Cardinality(p),
     completed |-> Cardinality({i \in 1..Len(c) : ~c[i].processing}),
     expired |-> Cardinality({i \in 1..Len(c) : Expired(c[i], t)})]

\* mark_completed / mark_failed, first part (lines 97-102, 113-118): the req_id
\* leaves _processing and the cached record's processing flag is cleared.
FinishFlag(c, p, req_id) ==
    [cache |-> IF Has(c, req_id)
               THEN [c EXCEPT ![Index(c, req_id)].processing = FALSE]
               ELSE c,
     processing |-> p \ {req_id}]

\* mark_completed / mark_failed, second part (lines 103-107, 119-123): the
\* result and the timestamp are written and the record moves to the end.
FinishResult(c, t, req_id, result) ==
    IF Has(c, req_id)
    THEN move_to_end([c EXCEPT ![Index(c, req_id)].result = result,
                               ![Index(c, req_id)].timestamp = t], req_id)
    ELSE c

\* both parts under the lock
Finish(c, p, t, req_id, result) ==
    LET s == FinishFlag(c, p, req_id)
    IN  [cache |-> FinishResult(s.cache, t, req_id, result),
         processing |-> s.processing]

mark_completed(c, p, t, req_id, result) == Finish(c, p, t, req_id, OrEmpty(result))

mark_failed(c, p, t, req_id) == Finish(c, p, t, req_id, ErrorDict)

get_result(c, req_id) ==
    IF Has(c, req_id) /\ ~Get(c, req_id).processing /\ Get(c, req_id).result # None
    THEN [cache |-> move_to_end(c, req_id), ret |-> Get(c, req_id).result]
    ELSE [cache |-> c, ret |-> None]

is_processing(p, req_id) == req_id \in p

\* is_duplicate_request (lines 196-213) with no concurrent writer: returns
\* (is_duplicate, cached_result_if_available)
is_duplicate_request(c, p, t, req_id, device_id, action) ==
    LET r == is_duplicate(c, p, t, req_id, device_id, action)
    IN  IF r.dup /\ r.rec.processing
        THEN [cache |-> r.cache, processing |-> r.processing,
              dup |-> TRUE, result |-> ProcessingResponse]
        ELSE IF r.dup /\ Truthy(r.rec.result)
        THEN [cache |-> r.cache, processing |-> r.processing,
              dup |-> TRUE, result |-> r.rec.result]
        ELSE [cache |-> r.cache, processing |-> r.processing,
              dup |-> FALSE, result |-> None]

\* ------------------------------------------------------------ commands table
Sessions == {"s1", "s2"}
CommandReqIds == {"q1", "q2"}
DeviceIds == {"d1", "d2"}

\* a nullable column holds Null or Some(value)
Null == <<>>
Some(x) == <<x>>

\* a row of the Command model (db.py:62-83)
Command(id, req_id, device_id, module_name, actor, action, params, dispatched_at) ==
    [id |-> id, req_id |-> req_id, device_id |-> device_id, module_name |-> module_name,
     actor |-> actor, action |-> action, params |-> params,
     status |-> "dispatched", dispatched_at |-> Some(dispatched_at), acked_at |-> Null,
     success |-> Null, error_message |-> Null, response_details |-> EmptyDict,
     duration_ms |-> Null]

NoCommand == [Command(0, None, None, None, None, None, None, 0) EXCEPT !.status = None]

\* what a DatabaseManager call returned: the row at an index of the table as
\* refreshed at the commit, None, or the IntegrityError raised by the commit
NotReturned == [kind |-> "not returned", index |-> 0]
Returned(index) == [kind |-> "row", index |-> index]
ReturnedNone == [kind |-> "None", index |-> 0]
IntegrityError == [kind |-> "IntegrityError", index |-> 0]

\* (success, error_message, response_details) of an acknowledgment
AckArgs == {<<TRUE, Null, OkDict>>, <<TRUE, Null, None>>, <<FALSE, Some("boom"), None>>}

\* attempts: how many times the body of the operation has run in the call
IdleSession == [pc |-> "idle", call |-> 0, attempts |-> 0, op |-> None, req_id |-> None, success |-> FALSE,
                error_message |-> Null, response_details |-> None,
                index |-> 0, loaded |-> NoCommand, command |-> NoCommand,
                ret |-> NotReturned]

\* ---------------------------------------------------------- dead-letter queue
\* DeadLetterQueue(mqtt_client, max_retries=3)
max_retries == 3
\* number of DeadLetterQueue operations in a behaviour
MaxDlqCalls == 3

\* topics are the "/"-separated segments of the topic string
ResponseTopic == <<"lab", "dlq", "response">>
OriginalTopic == <<"lab", "d1", "cmd">>
OriginalPayload == [req_id |-> "p1", action |-> "start"]

\* arguments of send_to_dlq: None or a name for device_id and module_name
DlqDevices == {None, "d1"}
DlqModules == {None, "m1"}
RetryCounts == {0, max_retries}
\* ids of the records: uuid4 gives every record an id of its own
DlqIds == 1..MaxDlqCalls

\* truthiness of an Optional[str]
Known(x) == x \notin {None, ""}

\* DeadLetterMessage (the timestamps and the metadata are left out)
DeadLetterMessage(id, original_topic, payload, failure_reason, device_id, module_name, req_id, retry_count) ==
    [id |-> id, original_topic |-> original_topic, payload |-> payload,
     failure_reason |-> failure_reason, device_id |-> device_id,
     module_name |-> module_name, req_id |-> req_id, retry_count |-> retry_count]

\* SharedMQTT.publish_json(topic, payload, qos=1, retain=False): the message
\* is handed to the broker on that topic
publish_json(b, topic, payload) == Append(b, [topic |-> topic, payload |-> payload])

\* faulty variant of dlq_topic: the device-only scope falls through
dlq_topic_no_device_scope(device_id, module_name) ==
    IF Known(device_id) /\ Known(module_name)
    THEN <<"lab", "dlq", device_id, module_name>>
    ELSE <<"lab", "dlq", "orchestrator">>

\* send_to_dlq lines 89-95
dlq_topic(device_id, module_name) ==
    IF Known(device_id) /\ Known(module_name)
    THEN <<"lab", "dlq", device_id, module_name>>
    ELSE IF Known(device_id)
    THEN <<"lab", "dlq", device_id, "device">>
    ELSE <<"lab", "dlq", "orchestrator">>

\* send_to_dlq: the record is created, its copy published, _store_dlq_message
\* called (lines 121-131: the body of the session block is `pass`)
send_to_dlq(b, id, original_topic, payload, failure_reason, device_id, module_name, req_id, retry_count) ==
    LET dlq_message == DeadLetterMessage(id, original_topic, payload, failure_reason,
                                         device_id, module_name,
                                         IF Known(req_id) THEN req_id ELSE payload.req_id,
                                         retry_count)
    IN  [bus |-> publish_json(b, dlq_topic(device_id, module_name), dlq_message),
         message |-> dlq_message]

\* _get_dlq_message: `return None  # Placeholder`
get_dlq_message(dlq_id) == Null

\* get_dlq_messages: `return []  # Placeholder`
get_dlq_messages == <<>>

\* get_dlq_stats: the constant dict of lines 227-234
get_dlq_stats == [total_messages |-> 0]

\* faulty variant of retry_found: the retry count is not checked
retry_found_unchecked(b, dlq_message) ==
    [bus |-> publish_json(b, dlq_message.original_topic, dlq_message.payload),
     message |-> [dlq_message EXCEPT !.retry_count = @ + 1],
     ret |-> TRUE]

\* retry_message lines 141-177, for a record that _get_dlq_message found;
\* message is the record handed to _update_dlq_message
retry_found(b, dlq_message) ==
    IF dlq_message.retry_count >= max_retries
    THEN [bus |-> b, message |-> dlq_message, ret |-> FALSE]
    ELSE [bus |-> publish_json(b, dlq_message.original_topic, dlq_message.payload),
          message |-> [dlq_message EXCEPT !.retry_count = @ + 1],
          ret |-> TRUE]

\* retry_message lines 133-183
retry_message(b, dlq_id) ==
    LET found == get_dlq_message(dlq_id)
    IN  IF found = Null
        THEN [bus |-> b, ret |-> FALSE]
        ELSE [bus |-> retry_found(b, found[1]).bus, ret |-> retry_found(b, found[1]).ret]

\* operator commands on /lab/dlq/cmd: payload.get(key) of an absent key is Null
DlqCommand(action, dlq_id, req_id, filters) ==
    [action |-> action, dlq_id |-> dlq_id, req_id |-> req_id, filters |-> filters]

DlqCommands ==
    {DlqCommand("retry", d, r, "valid") : d \in {Null} \cup {Some(i) : i \in 1..2},
                                          r \in {Null, Some("op1")}}
    \cup {DlqCommand(a, Null, r, "valid") : a \in {"purge", "stats", "bogus"},
                                            r \in {Null, Some("op1")}}
    \cup {DlqCommand("list", Null, r, f) : r \in {Null, Some("op1")},
                                           f \in {"valid", "invalid"}}

\* a response dict: the keys it does not hold are Null
Response(action, dlq_id, success, error, count, dlq_stats) ==
    [action |-> action, dlq_id |-> dlq_id, success |-> success, error |-> error,
     count |-> count, stats |-> dlq_stats]

\* payload.get("req_id", "")
ReqIdOf(payload) == IF payload.req_id = Null THEN "" ELSE payload.req_id[1]

\* _handle_dlq_command lines 263-293: the bus after the action was carried out
\* and the response dict; list with filters that get_dlq_messages does not
\* accept raises TypeError, answered by the except branch (lines 301-310)
dlq_response(b, payload) ==
    LET retried == retry_message(b, payload.dlq_id[1])
    IN  IF payload.action = "retry"
        THEN IF payload.dlq_id # Null
             THEN [bus |-> retried.bus,
                   response |-> Response(Some("retry"), payload.dlq_id, Some(retried.ret),
                                         Null, Null, Null)]
             ELSE [bus |-> b,
                   response |-> Response(Some("retry"), Null, Null, Some("Missing dlq_id"),
                                         Null, Null)]
        ELSE IF payload.action = "purge"
        THEN [bus |-> b, response |-> Response(Some("purge"), Null, Some(TRUE), Null, Null, Null)]
        ELSE IF payload.action = "stats"
        THEN [bus |-> b,
              response |-> Response(Some("stats"), Null, Null, Null, Null, Some(get_dlq_stats))]
        ELSE IF payload.action = "list"
        THEN IF payload.filters = "valid"
             THEN [bus |-> b,
                   response |-> Response(Some("list"), Null, Null, Null,
                                         Some(Len(get_dlq_messages)), Null)]
             ELSE [bus |-> b,
                   response |-> Response(Null, Null, Null, Some("TypeError"), Null, Null)]
        ELSE [bus |-> b,
              response |-> Response(Null, Null, Null, Some("Unknown action"), Null, Null)]

\* faulty variant of handle_dlq_command: the except branch only logs
handle_dlq_command_logs_only(b, payload) ==
    LET r == dlq_response(b, payload)
    IN  IF r.response.error = Some("TypeError")
        THEN r.bus
        ELSE publish_json(r.bus, ResponseTopic,
                          [response |-> r.response, req_id |-> ReqIdOf(payload)])

\* _handle_dlq_command lines 261-311: the bus after the handler
handle_dlq_command(b, payload) ==
    LET r == dlq_response(b, payload)
    IN  publish_json(r.bus, ResponseTopic,
                     [response |-> r.response, req_id |-> ReqIdOf(payload)])

\* no DeadLetterQueue operation yet
IdleDlq == [n |-> 0, op |-> None, message |-> Null, payload |-> Null]

\* -------------------------------------------------------------------- retry
\* largest RetryConfig.max_attempts tried
MaxAttempts == 3
\* largest attempt number calculate_delay is asked about
MaxDelayAttempt == 6

RetryImpls == {"retry_sync", "retry_async", "execute"}

\* the base class of each exception class (IntegrityError is sqlalchemy's, its
\* chain up to Exception is left out)
Bases ==
    [c \in {"BaseException", "Exception", "KeyboardInterrupt", "OSError", "ConnectionError",
            "TimeoutError", "FileNotFoundError", "SubprocessError", "ValueError",
            "TypeError", "LookupError", "KeyError", "IntegrityError"} |->
        CASE c = "BaseException" -> None
          [] c = "Exception" -> "BaseException"
          [] c = "KeyboardInterrupt" -> "BaseException"
          [] c \in {"ConnectionError", "TimeoutError", "FileNotFoundError"} -> "OSError"
          [] c = "KeyError" -> "LookupError"
          [] OTHER -> "Exception"]

\* the class and its ancestors
RECURSIVE Mro(_)
Mro(class) == IF class = None THEN {} ELSE {class} \cup Mro(Bases[class])

\* classes func raises
ExceptionClasses ==
    {"ConnectionError", "FileNotFoundError", "ValueError", "KeyError", "KeyboardInterrupt"}

\* an exception object: its class and the invocation that raised it
Exc(class, attempt) == [class |-> class, attempt |-> attempt]
NoException == Exc(None, 0)

\* isinstance(exception, classes) for a tuple of classes
isinstance(exception, classes) == Mro(exception.class) \cap classes # {}

\* RetryConfig.__init__ (lines 23-41); delays in units of 50 ms, jitter_factor
\* in percent
RetryConfig(max_attempts, base_delay, max_delay, retriable_exceptions, non_retriable_exceptions) ==
    [max_attempts |-> max_attempts, base_delay |-> base_delay, max_delay |-> max_delay,
     exponential_base |-> 2, jitter |-> TRUE, jitter_factor |-> 10,
     retriable_exceptions |-> IF retriable_exceptions = {} THEN {"Exception"}
                              ELSE retriable_exceptions,
     non_retriable_exceptions |-> non_retriable_exceptions]

\* RetryConfig(): the defaults
DEFAULT_RETRY_CONFIG == RetryConfig(3, 20, 1200, {}, {})
\* lines 66-72
MQTT_RETRY_CONFIG ==
    RetryConfig(5, 10, 600, {"ConnectionError", "TimeoutError", "OSError"},
                {"ValueError", "TypeError"})
\* lines 74-80
DATABASE_RETRY_CONFIG == RetryConfig(3, 20, 200, {"Exception"}, {"ValueError", "TypeError"})
\* lines 82-88
SUBPROCESS_RETRY_CONFIG ==
    RetryConfig(3, 40, 600, {"OSError", "SubprocessError"},
                {"ValueError", "TypeError", "FileNotFoundError"})
\* lines 90-96
SERIAL_RETRY_CONFIG ==
    RetryConfig(5, 20, 300, {"OSError", "ConnectionError"}, {"ValueError", "TypeError"})

RetryConfigs == {DEFAULT_RETRY_CONFIG, MQTT_RETRY_CONFIG, DATABASE_RETRY_CONFIG,
                 SUBPROCESS_RETRY_CONFIG, SERIAL_RETRY_CONFIG}

\* what random.uniform(-jitter_range, jitter_range) gives, as a multiple of
\* jitter_range: either end or the middle
Jitters == {-1, 0, 1}

RECURSIVE Pow(_, _)
Pow(b, e) == IF e = 0 THEN 1 ELSE b * Pow(b, e - 1)

Min(a, b) == IF a <= b THEN a ELSE b
Max(a, b) == IF a >= b THEN a ELSE b

\* faulty variant of calculate_delay: the exponent is attempt, not attempt - 1
calculate_delay_off_by_one(config, attempt, u) ==
    LET delay == Min(config.base_delay * Pow(config.exponential_base, attempt),
                     config.max_delay)
    IN  IF config.jitter
        THEN LET jitter_range == (delay * config.jitter_factor) \div 100
             IN  Max(0, delay + u * jitter_range)
        ELSE delay

\* RetryConfig.calculate_delay (lines 43-53); u is the draw of random.uniform
calculate_delay(config, attempt, u) ==
    LET delay == Min(config.base_delay * Pow(config.exponential_base, attempt - 1),
                     config.max_delay)
    IN  IF config.jitter
        THEN LET jitter_range == (delay * config.jitter_factor) \div 100
             IN  Max(0, delay + u * jitter_range)
        ELSE delay

\* what one invocation of func does
Returns(value) == [kind |-> "return", value |-> value, exception |-> NoException]
Raises(exception) == [kind |-> "raise", value |-> None, exception |-> exception]
\* raise RetryError(message, last_exception, attempt_count)
RetryError(last_exception, attempt_count) ==
    [kind |-> "RetryError", value |-> attempt_count, exception |-> last_exception]
Pending == [kind |-> "pending", value |-> None, exception |-> NoException]

\* faulty variant of is_retriable_exception: the retriable classes are looked at first
is_retriable_exception_retriable_first(config, exception) ==
    IF isinstance(exception, config.retriable_exceptions)
    THEN TRUE
    ELSE ~isinstance(exception, config.non_retriable_exceptions)

\* RetryConfig.is_retriable_exception (lines 55-62)
is_retriable_exception(config, exception) ==
    IF isinstance(exception, config.non_retriable_exceptions)
    THEN FALSE
    ELSE isinstance(exception, config.retriable_exceptions)

\* no retried call yet
IdleRetry == [pc |-> "idle", impl |-> None, config |-> DEFAULT_RETRY_CONFIG,
              max_attempts |-> 0, attempt |-> 0,
              last_exception |-> NoException, history |-> <<>>, sleeps |-> <<>>,
              outcome |-> Pending]

\* retry_sync / retry_async reach `for attempt in range(1, max_attempts + 1)`
\* (lines 107-109, 180-182): with no iteration to run, control falls to the
\* raise after the loop (lines 162-166) with last_exception = None
wrapper_call(st) ==
    IF st.config.max_attempts >= 1
    THEN [st EXCEPT !.pc = "loop"]
    ELSE [st EXCEPT !.pc = "done",
                    !.outcome = RetryError(NoException, st.config.max_attempts)]

\* RetryableOperation.execute reaches its loop (line 318): with no iteration to
\* run, the method ends without a return statement and returns None
execute_call(st) ==
    IF st.config.max_attempts >= 1
    THEN [st EXCEPT !.pc = "loop"]
    ELSE [st EXCEPT !.pc = "done", !.outcome = Returns(None)]

\* one iteration of the loop of retry_sync / retry_async (lines 109-166,
\* 182-239) in which func did `did` and random.uniform drew u; after the last
\* iteration the loop ends and RetryError is raised
wrapper_attempt(st, did, u) ==
    LET attempt == st.attempt + 1
        ran == [st EXCEPT !.attempt = attempt, !.history = Append(@, did)]
    IN  IF did.kind = "return"
        THEN [ran EXCEPT !.pc = "done", !.outcome = did]
        ELSE IF ~isinstance(did.exception, {"Exception"})
        THEN [ran EXCEPT !.pc = "done", !.outcome = did]
        ELSE LET failed == [ran EXCEPT !.last_exception = did.exception]
             IN  IF ~is_retriable_exception(st.config, did.exception)
                 THEN [failed EXCEPT !.pc = "done", !.outcome = did]
                 ELSE IF attempt < st.config.max_attempts
                 THEN [failed EXCEPT
                          !.sleeps = Append(@, calculate_delay(st.config, attempt, u))]
                 ELSE [failed EXCEPT !.pc = "done",
                                     !.outcome = RetryError(failed.last_exception,
                                                            st.config.max_attempts)]

\* faulty variant of execute_attempt: the last attempt is suppressed too
execute_attempt_suppresses_last(st, did, u) ==
    LET attempt == st.attempt + 1
        ran == [st EXCEPT !.attempt = attempt, !.history = Append(@, did)]
    IN  IF did.kind = "return"
        THEN [ran EXCEPT !.pc = "done", !.outcome = did]
        ELSE LET failed == [ran EXCEPT !.last_exception = did.exception]
             IN  IF ~is_retriable_exception(st.config, did.exception)
                 THEN [failed EXCEPT !.pc = "done", !.outcome = did]
                 ELSE IF attempt < st.config.max_attempts
                 THEN [failed EXCEPT
                          !.sleeps = Append(@, calculate_delay(st.config, attempt, u))]
                 ELSE [failed EXCEPT !.pc = "done", !.outcome = Returns(None)]

\* one iteration of the loop of RetryableOperation.execute (lines 318-322)
\* with __exit__ (lines 258-314)
execute_attempt(st, did, u) ==
    LET attempt == st.attempt + 1
        ran == [st EXCEPT !.attempt = attempt, !.history = Append(@, did)]
    IN  IF did.kind = "return"
        THEN [ran EXCEPT !.pc = "done", !.outcome = did]
        ELSE LET failed == [ran EXCEPT !.last_exception = did.exception]
             IN  IF ~is_retriable_exception(st.config, did.exception)
                 THEN [failed EXCEPT !.pc = "done", !.outcome = did]
                 ELSE IF attempt < st.config.max_attempts
                 THEN [failed EXCEPT
                          !.sleeps = Append(@, calculate_delay(st.config, attempt, u))]
                 ELSE [failed EXCEPT !.pc = "done",
                                     !.outcome = RetryError(did.exception,
                                                            st.config.max_attempts)]

\* ------------------------------------------------ devices and the pruned tables
\* clock ticks in a UTC day
DayLength == 2
\* arguments of cleanup_old_records
Days == {0, 1}

PrunedTables == {"heartbeats", "module_status", "events"}
TableNames == {"devices"} \cup PrunedTables

\* a row of Heartbeat / ModuleStatus / Event (db.py:38-59, 86-97): its id, the
\* device and its timestamp column; a row of Device (db.py:22-35): timestamp
\* stands for updated_at
Row(id, device_id, timestamp) == [id |-> id, device_id |-> device_id, timestamp |-> timestamp]

EmptyTables == [t \in TableNames |-> {}]

\* no cleanup_old_records call yet
IdleCleanup == [n |-> 0, days |-> 0, ret |-> NotReturned.kind]

\* the attributes of the class that the name `datetime` is bound to by
\* `from datetime import datetime` (db.py:4) that db.py touches
datetime_attributes == {"utcnow"}

\* datetime.utcnow().replace(hour=0, minute=0, second=0, microsecond=0)
StartOfDay(t) == (t \div DayLength) * DayLength

\* query.filter(Model.timestamp < cutoff).delete()
DeleteOlder(rows, cutoff) == {r \in rows : ~(r.timestamp < cutoff)}

\* faulty variant of cleanup_old_records: timedelta is imported, and the
\* commands are pruned like the other tables
cleanup_old_records_prunes_commands(tb, cmds, t, days) ==
    LET cutoff == StartOfDay(t) - days * DayLength
    IN  [tables |-> [x \in TableNames |->
                        IF x \in PrunedTables THEN DeleteOlder(tb[x], cutoff) ELSE tb[x]],
         commands |-> SelectSeq(cmds, LAMBDA c : ~(c.dispatched_at[1] < cutoff)),
         ret |-> "None"]

\* DatabaseManager.cleanup_old_records (lines 277-294): line 280 looks up
\* timedelta on the class datetime, which raises AttributeError before the
\* session is opened
cleanup_old_records(tb, cmds, t, days) ==
    IF "timedelta" \notin datetime_attributes
    THEN [tables |-> tb, commands |-> cmds, ret |-> "AttributeError"]
    ELSE LET cutoff == StartOfDay(t) - days * DayLength
         IN  [tables |-> [x \in TableNames |->
                             IF x \in PrunedTables THEN DeleteOlder(tb[x], cutoff)
                             ELSE tb[x]],
              commands |-> cmds,
              ret |-> "None"]

\* ------------------------------------------------------------------- health
\* largest number of devices in the registry
MaxDevices == 2

\* self.mqtt.client.is_connected(): True, False, or an exception
MqttStates == {"connected", "disconnected", "error"}
\* session.execute("SELECT 1"): a value, or an exception
DatabaseStates == {"up", "down"}

\* the device registry: how many devices it holds and whether it is quiesced
Registry(devices, quiesced) == [devices |-> devices, quiesced |-> quiesced]

\* HealthChecker._is_mqtt_ready (lines 288-293)
is_mqtt_ready(h) == IF h.mqtt = "error" THEN FALSE ELSE h.mqtt = "connected"

\* HealthChecker._is_database_ready (lines 295-302)
is_database_ready(h) == IF h.database = "up" THEN TRUE ELSE FALSE

\* HealthChecker._are_plugins_ready (lines 304-308)
are_plugins_ready(h) == TRUE

\* HealthChecker.check_readiness (lines 72-96), without the timestamp
check_readiness(h) ==
    [ready |-> (TRUE /\ is_mqtt_ready(h)) /\ is_database_ready(h) /\ are_plugins_ready(h),
     details |-> [mqtt |-> is_mqtt_ready(h), database |-> is_database_ready(h),
                  plugins |-> are_plugins_ready(h)]]

\* HealthChecker._check_mqtt (lines 106-140): the status it reports; a client
\* that raises is reported unhealthy
check_mqtt(h) == IF h.mqtt = "connected" THEN "healthy" ELSE "unhealthy"

\* HealthChecker._check_database (lines 142-173)
check_database(h) == IF h.database = "up" THEN "healthy" ELSE "unhealthy"

\* HealthChecker._check_devices (lines 175-222): total and online are counted
\* from the registry snapshot; a snapshot that raises is reported unhealthy
check_devices(total, online, raises) ==
    IF raises THEN "unhealthy"
    ELSE IF total = 0 THEN "healthy"
    ELSE IF 2 * online >= total THEN "healthy"
    ELSE "degraded"

\* lines 42 and 48: "degraded" if overall_status == "healthy" else "unhealthy"
escalate(overall_status) == IF overall_status = "healthy" THEN "degraded" ELSE "unhealthy"

\* HealthChecker.check_health (lines 33-70): the overall status and the status
\* of the three checks that can change it; the plugins and system checks are
\* recorded without touching overall_status
check_health(h, online, raises) ==
    LET mqtt_check == check_mqtt(h)
        db_check == check_database(h)
        devices_check == check_devices(h.registry.devices, online, raises)
        after_mqtt == IF mqtt_check # "healthy" THEN escalate("healthy") ELSE "healthy"
        after_db == IF db_check # "healthy" THEN escalate(after_mqtt) ELSE after_mqtt
        after_devices == IF devices_check # "healthy" THEN "degraded" ELSE after_db
    IN  [status |-> after_devices,
         checks |-> [mqtt |-> mqtt_check, database |-> db_check, devices |-> devices_check]]

\* the collaborators of a HealthChecker after construction, no probe made yet
IdleHealth == [mqtt |-> "disconnected", database |-> "up", registry |-> Registry(0, FALSE),
               readiness |-> Null, status |-> Null]

\* ------------------------------------------------------------ StartupProbe
ModuleNames == {"ndi", "projector"}
\* the error argument of mark_module_loaded: None, an empty string or a message
ErrorArgs == {None, "", "boom"}
\* number of entries of startup_errors in a behaviour
MaxStartupErrors == 2
\* module_load_status.get(module_name) of a module never marked
Untracked == "untracked"

\* StartupProbe.__init__ (lines 315-318)
IdleProbe == [module_load_status |-> [m \in ModuleNames |-> Untracked],
              startup_complete |-> FALSE, startup_errors |-> <<>>]

\* mark_module_loading (lines 320-322)
mark_module_loading(pr, module_name) ==
    [pr EXCEPT !.module_load_status[module_name] = "loading"]

\* mark_module_loaded (lines 324-331); f"{module_name}: {error}" is kept as
\* the pair
mark_module_loaded(pr, module_name, success, error) ==
    IF success
    THEN [pr EXCEPT !.module_load_status[module_name] = "loaded"]
    ELSE IF error \notin {None, ""}
    THEN [pr EXCEPT !.module_load_status[module_name] = "failed",
                    !.startup_errors = Append(@, <<module_name, error>>)]
    ELSE [pr EXCEPT !.module_load_status[module_name] = "failed"]

\* mark_startup_complete (lines 333-335)
mark_startup_complete(pr) == [pr EXCEPT !.startup_complete = TRUE]

\* the modules of module_load_status whose value is v
ModulesWith(pr, v) == {m \in ModuleNames : pr.module_load_status[m] = v}

\* get_startup_status (lines 337-354)
get_startup_status(pr) ==
    LET loading_modules == ModulesWith(pr, "loading")
        failed_modules == ModulesWith(pr, "failed")
        loaded_modules == ModulesWith(pr, "loaded")
    IN  [ready |-> pr.startup_complete /\ Cardinality(loading_modules) = 0
                     /\ Cardinality(failed_modules) = 0,
         startup_complete |-> pr.startup_complete,
         modules |-> [loading |-> loading_modules, loaded |-> loaded_modules,
                      failed |-> failed_modules],
         errors |-> pr.startup_errors]

\* ------------------------------------------------------------------- schema
EnvelopeKinds == {"command", "ack", "device_meta", "device_status", "module_status"}

\* a ts string: what precedes the zone designator, and the zone designator
TsString(body, zone) == [body |-> body, zone |-> zone]
TsBodies == {"2024-01-01T00:00:00", "yesterday", ""}
TsZones == {"", "Z", "+00:00", "UTC"}
\* the ts key is absent, holds None, or holds a string
Absent == [body |-> None, zone |-> "absent"]
TsNone == [body |-> None, zone |-> "None"]
TsValues == {Absent, TsNone} \cup {TsString(b, z) : b \in TsBodies, z \in TsZones}

\* size limits of the dict fields, in bytes
KiB == 1024
\* MQTTCommandEnvelope.params (line 101)
MaxParamsBytes == 64 * KiB
\* MQTTAckEnvelope.details (line 139)
MaxDetailsBytes == 32 * KiB
\* ModuleStatusEnvelope.fields (line 217)
MaxFieldsBytes == 16 * KiB
SizeLimits == {MaxParamsBytes, MaxDetailsBytes, MaxFieldsBytes}

\* len(json.dumps(v).encode('utf-8')) of the envelope's dict field (params,
\* details or fields): a number of bytes, or Null when json.dumps raises
\* TypeError; the empty dict serializes to two bytes
EmptyDictBytes == 2
Sizes == {Null, Some(EmptyDictBytes)} \cup {Some(l + d) : l \in SizeLimits, d \in {0, 1}}

\* a payload: its ts, the serialized size of its dict field, and whether its
\* other fields satisfy the envelope's constraints
Payload(ts, size, others) == [ts |-> ts, size |-> size, others |-> others]
Payloads == {Payload(ts, size, others) : ts \in TsValues, size \in Sizes, others \in BOOLEAN}

\* datetime.fromisoformat(v): does it parse
fromisoformat(v) == v.body = "2024-01-01T00:00:00" /\ v.zone \in {"", "+00:00"}

\* validate_timestamp (schema.py:75-86, 121-131, 191-201): a trailing Z is
\* replaced by +00:00 before parsing
validate_timestamp(v) ==
    IF v.zone = "Z"
    THEN fromisoformat([v EXCEPT !.zone = "+00:00"])
    ELSE fromisoformat(v)

\* the envelope classes that declare @validator('ts'): MQTTCommandEnvelope,
\* MQTTAckEnvelope, DeviceStatusEnvelope; DeviceMetaEnvelope and
\* ModuleStatusEnvelope declare none
HasTsValidator == {"command", "ack", "device_status"}

\* the size test of validate_params_size / validate_details_size /
\* validate_fields_size (lines 101, 139, 217)
\* faulty variant of too_large: a size equal to the limit is refused
too_large_at_limit(size, limit) == size >= limit

too_large(size, limit) == size > limit

\* the limit of the dict field each envelope class validates; DeviceMetaEnvelope
\* and DeviceStatusEnvelope have no size validator
size_limit(kind) ==
    CASE kind = "command" -> Some(MaxParamsBytes)
      [] kind = "ack" -> Some(MaxDetailsBytes)
      [] kind = "module_status" -> Some(MaxFieldsBytes)
      [] OTHER -> Null

\* validate_params_size (lines 95-107) and its two siblings: the "too large"
\* error is re-raised; any other TypeError or ValueError of json.dumps becomes
\* "must be JSON serializable"
validate_size(kind, size) ==
    IF size_limit(kind) = Null
    THEN TRUE
    ELSE IF size = Null
    THEN FALSE
    ELSE ~too_large(size[1], size_limit(kind)[1])

ValidationError == [kind |-> "ValidationError", envelope |-> Payload(Absent, Null, FALSE)]
Envelope(payload) == [kind |-> "envelope", envelope |-> payload]

\* validate_mqtt_command / validate_mqtt_ack / validate_device_meta /
\* validate_device_status / validate_module_status (lines 331-353): the model
\* class is built from the payload; ts is a required str field
validate(kind, payload) ==
    IF payload.ts \in {Absent, TsNone}
    THEN ValidationError
    ELSE IF ~payload.others
    THEN ValidationError
    ELSE IF kind \in HasTsValidator /\ ~validate_timestamp(payload.ts)
    THEN ValidationError
    ELSE IF ~validate_size(kind, payload.size)
    THEN ValidationError
    ELSE Envelope(payload)

\* ------------------------------------------------- projector adjustments
\* ProjectorCommandParams (schema.py:242-266) and ProjectorAdjustRequest
\* (models.py:186-203): the adjustment and value fields
Keystone == {"H-KEYSTONE", "V-KEYSTONE"}
ImageShift == {"H-IMAGE-SHIFT", "V-IMAGE-SHIFT"}
\* the key is absent (None), names one of the four adjustments, or is another string
AdjustmentArgs == {None, "ZOOM"} \cup Keystone \cup ImageShift
\* Field(..., ge=-100, le=100)
ValueLimit == 100
\* validator: keystone range, image shift range
KeystoneLimit == 40
ShiftLimit == 100
\* the value key is absent (Null) or holds an int, around each limit
ValueArgs == {Null} \cup {Some(sign * (l + d)) : sign \in {-1, 1}, l \in {0, KeystoneLimit, ValueLimit}, d \in {0, 1}}
AdjustPayload(adjustment, value) == [adjustment |-> adjustment, value |-> value]
AdjustPayloads == {AdjustPayload(a, v) : a \in AdjustmentArgs, v \in ValueArgs}

\* regex=r'^(H-IMAGE-SHIFT|V-IMAGE-SHIFT|H-KEYSTONE|V-KEYSTONE)$'
adjustment_regex(adjustment) == adjustment \in Keystone \cup ImageShift

\* values.get('adjustment'): a field that failed validation is not in values
values_get_adjustment(adjustment) ==
    IF adjustment # None /\ adjustment_regex(adjustment) THEN adjustment ELSE None

\* faulty variant of validate_adjustment_value: the keystone bounds are exclusive
validate_adjustment_value_exclusive(v, adjustment) ==
    IF adjustment \in Keystone
    THEN -KeystoneLimit < v /\ v < KeystoneLimit
    ELSE IF adjustment \in ImageShift
    THEN -ShiftLimit <= v /\ v <= ShiftLimit
    ELSE TRUE

\* ProjectorCommandParams.validate_adjustment_value (schema.py:252-266), for a
\* value that is not None: does it return (TRUE) or raise ValueError (FALSE)
validate_adjustment_value(v, adjustment) ==
    IF adjustment \in Keystone
    THEN -KeystoneLimit <= v /\ v <= KeystoneLimit
    ELSE IF adjustment \in ImageShift
    THEN -ShiftLimit <= v /\ v <= ShiftLimit
    ELSE TRUE

\* ProjectorAdjustRequest.validate_adjustment_range (models.py:192-203)
validate_adjustment_range(v, adjustment) ==
    IF adjustment \in Keystone
    THEN -KeystoneLimit <= v /\ v <= KeystoneLimit
    ELSE IF adjustment \in ImageShift
    THEN -ShiftLimit <= v /\ v <= ShiftLimit
    ELSE TRUE

\* validate_projector_params (schema.py:361-363): ProjectorCommandParams(**params);
\* both fields are optional; TRUE when the model is built, FALSE on ValidationError
validate_projector_params(payload) ==
    /\ payload.adjustment = None \/ adjustment_regex(payload.adjustment)
    /\ \/ payload.value = Null
       \/ /\ -ValueLimit <= payload.value[1] /\ payload.value[1] <= ValueLimit
          /\ validate_adjustment_value(payload.value[1], values_get_adjustment(payload.adjustment))

\* ProjectorAdjustRequest(**data) (models.py:186-203): both fields are required
ProjectorAdjustRequest(payload) ==
    /\ payload.adjustment # None /\ adjustment_regex(payload.adjustment)
    /\ payload.value # Null
    /\ -ValueLimit <= payload.value[1] /\ payload.value[1] <= ValueLimit
    /\ validate_adjustment_range(payload.value[1], values_get_adjustment(payload.adjustment))

ModelBuilt == [kind |-> "model"]

\* nothing validated yet
IdleSchema == [kind |-> None, payload |-> Payload(Absent, Null, FALSE),
               result |-> ValidationError]

\* -------------------------------------------------------------------- Init
\* a thread outside the wrapper
Idle == [pc |-> "idle", req_id |-> None, device_id |-> None, action |-> None,
         record |-> NoRecord, live |-> FALSE, result |-> None, ret |-> NoReturn]

Init ==
    /\ cache = <<>>
    /\ processing = {}
    /\ now = 0
    /\ threads = [t \in Threads |-> Idle]
    /\ lock = None
    /\ runs = [r \in ReqIds |-> 0]
    /\ submitted = [r \in ReqIds |-> {}]
    /\ dropped = {}
    /\ calls = 0
    /\ commands = <<>>
    /\ sessions = [s \in Sessions |-> IdleSession]
    /\ bus = <<>>
    /\ dlq = IdleDlq
    /\ retry = IdleRetry
    /\ tables = EmptyTables
    /\ cleanup = IdleCleanup
    /\ health = IdleHealth
    /\ probe = IdleProbe
    /\ schema = IdleSchema

\* ------------------------------------------- direct calls of the deduplicator
\* One action per public method, called with the lock held (atomic).

ApiIsDuplicate ==
    \E req_id \in ReqIds : \E info \in InfosOf(req_id) :
        LET r == is_duplicate(cache, processing, now, req_id, info[1], info[2])
        IN  /\ cache' = r.cache
            /\ processing' = r.processing
            /\ UNCHANGED <<now, wrapVars, dbVars, extVars>>

ApiMarkProcessing ==
    \E req_id \in ReqIds : \E info \in InfosOf(req_id) :
        LET r == mark_processing(cache, processing, now, req_id, info[1], info[2])
        IN  /\ cache' = r.cache
            /\ processing' = r.processing
            /\ UNCHANGED <<now, wrapVars, dbVars, extVars>>

ApiMarkCompleted ==
    \E req_id \in ReqIds, result \in ResultArgs :
        LET r == mark_completed(cache, processing, now, req_id, result)
        IN  /\ cache' = r.cache
            /\ processing' = r.processing
            /\ UNCHANGED <<now, wrapVars, dbVars, extVars>>

ApiMarkFailed ==
    \E req_id \in ReqIds :
        LET r == mark_failed(cache, processing, now, req_id)
        IN  /\ cache' = r.cache
            /\ processing' = r.processing
            /\ UNCHANGED <<now, wrapVars, dbVars, extVars>>

ApiGetResult ==
    \E req_id \in ReqIds :
        LET r == get_result(cache, req_id)
        IN  /\ cache' = r.cache
            /\ UNCHANGED <<processing, now, wrapVars, dbVars, extVars>>

ApiClear ==
    /\ cache' = <<>>
    /\ processing' = {}
    /\ UNCHANGED <<now, wrapVars, dbVars, extVars>>

\* time passes between calls
Tick ==
    /\ now < MaxTime
    /\ now' = now + 1
    /\ UNCHANGED <<cache, processing, wrapVars, dbVars, extVars>>

NextApi ==
    \/ ApiIsDuplicate
    \/ ApiMarkProcessing
    \/ ApiMarkCompleted
    \/ ApiMarkFailed
    \/ ApiGetResult
    \/ ApiClear
    \/ Tick

\* ------------------------------------------------ deduplicate_requests.wrapper
\* A thread holds a reference to the RequestRecord that is_duplicate returned and
\* reads its fields after the lock is released (is_duplicate_request, lines
\* 205-211). The reference follows the object: it sees the writes of
\* mark_completed / mark_failed while the object is the cached one (live), and
\* keeps the last fields once the object was replaced or removed.
Refs(th, c2, replaced) ==
    [u \in Threads |->
        IF ~th[u].live THEN th[u]
        ELSE IF th[u].record.req_id = replaced \/ ~Has(c2, th[u].record.req_id)
        THEN [th[u] EXCEPT !.live = FALSE]
        ELSE [th[u] EXCEPT !.record = Get(c2, th[u].record.req_id)]]

\* wrapper entry and the locked part of is_duplicate_request (lines 250-267, 203)
WCall(t) ==
    /\ threads[t].pc = "idle"
    /\ lock = None
    /\ calls < MaxCalls
    /\ \E req_id \in ReqIds : \E info \in InfosOf(req_id) :
        LET r == is_duplicate(cache, processing, now, req_id, info[1], info[2])
            me == [Idle EXCEPT !.pc = IF r.dup THEN "read_processing" ELSE "mark",
                               !.req_id = req_id, !.device_id = info[1],
                               !.action = info[2], !.record = r.rec, !.live = r.dup]
        IN  /\ cache' = r.cache
            /\ processing' = r.processing
            /\ threads' = Refs([threads EXCEPT ![t] = me], r.cache, None)
            /\ dropped' = dropped \cup (Keys(cache) \ Keys(r.cache))
            /\ submitted' = [submitted EXCEPT ![req_id] = @ \cup {info}]
            /\ calls' = calls + 1
            /\ UNCHANGED <<now, lock, runs, dbVars, extVars>>

\* is_duplicate_request line 206 (no lock held): the record's processing flag
WReadProcessing(t) ==
    /\ threads[t].pc = "read_processing"
    /\ threads' = [threads EXCEPT ![t] =
            IF threads[t].record.processing
            THEN [Idle EXCEPT !.ret = ProcessingResponse]
            ELSE [@ EXCEPT !.pc = "read_result"]]
    /\ UNCHANGED <<cache, processing, now, lock, runs, submitted, dropped, calls, dbVars, extVars>>

\* is_duplicate_request lines 209-213 (no lock held) and wrapper lines 268-269
WReadResult(t) ==
    /\ threads[t].pc = "read_result"
    /\ threads' = [threads EXCEPT ![t] =
            IF Truthy(threads[t].record.result)
            THEN [Idle EXCEPT !.ret = threads[t].record.result]
            ELSE [@ EXCEPT !.pc = "mark", !.record = NoRecord, !.live = FALSE]]
    /\ UNCHANGED <<cache, processing, now, lock, runs, submitted, dropped, calls, dbVars, extVars>>

\* wrapper lines 272-274: mark_request_processing
WMark(t) ==
    /\ threads[t].pc = "mark"
    /\ lock = None
    /\ LET me == threads[t]
           r == mark_processing(cache, processing, now, me.req_id, me.device_id, me.action)
       IN  /\ cache' = r.cache
           /\ processing' = r.processing
           /\ threads' = IF r.ret
                         THEN Refs([threads EXCEPT ![t].pc = "func"], r.cache, me.req_id)
                         ELSE [threads EXCEPT ![t] = [Idle EXCEPT !.ret = ProcessingResponse]]
           /\ dropped' = dropped \cup (Keys(cache) \ Keys(r.cache))
    /\ UNCHANGED <<now, lock, runs, submitted, calls, dbVars, extVars>>

\* wrapper line 278: the wrapped function runs; it returns a result or raises.
\* `except Exception` (line 285) catches an Exception; any other BaseException
\* leaves the wrapper at once
WFunc(t) ==
    /\ threads[t].pc = "func"
    /\ runs' = [runs EXCEPT ![threads[t].req_id] = @ + 1]
    /\ \E outcome \in ResultArgs \cup {Raised, RaisedBaseException} :
        threads' = [threads EXCEPT ![t] =
            IF outcome = Raised
            THEN [@ EXCEPT !.pc = "failed"]
            ELSE IF outcome = RaisedBaseException
            THEN [Idle EXCEPT !.ret = RaisedBaseException]
            ELSE [@ EXCEPT !.pc = "completed", !.result = outcome]]
    /\ UNCHANGED <<cache, processing, now, lock, submitted, dropped, calls, dbVars, extVars>>

\* wrapper line 281, mark_completed lines 95-102 (lock taken)
WCompletedFlag(t) ==
    /\ threads[t].pc = "completed"
    /\ lock = None
    /\ lock' = t
    /\ LET s == FinishFlag(cache, processing, threads[t].req_id)
       IN  /\ cache' = s.cache
           /\ processing' = s.processing
           /\ threads' = Refs([threads EXCEPT ![t].pc = "completed_result"], s.cache, None)
    /\ UNCHANGED <<now, runs, submitted, dropped, calls, dbVars, extVars>>

\* mark_completed lines 103-107 (lock released), wrapper line 283
WCompletedResult(t) ==
    /\ threads[t].pc = "completed_result"
    /\ lock = t
    /\ lock' = None
    /\ LET c2 == FinishResult(cache, now, threads[t].req_id, OrEmpty(threads[t].result))
       IN  /\ cache' = c2
           /\ threads' = Refs([threads EXCEPT ![t] = [Idle EXCEPT !.ret = threads[t].result]],
                              c2, None)
    /\ UNCHANGED <<processing, now, runs, submitted, dropped, calls, dbVars, extVars>>

\* wrapper lines 285-287, mark_failed lines 111-118 (lock taken)
WFailedFlag(t) ==
    /\ threads[t].pc = "failed"
    /\ lock = None
    /\ lock' = t
    /\ LET s == FinishFlag(cache, processing, threads[t].req_id)
       IN  /\ cache' = s.cache
           /\ processing' = s.processing
           /\ threads' = Refs([threads EXCEPT ![t].pc = "failed_result"], s.cache, None)
    /\ UNCHANGED <<now, runs, submitted, dropped, calls, dbVars, extVars>>

\* mark_failed lines 119-123 (lock released), wrapper line 288: the exception goes on
WFailedResult(t) ==
    /\ threads[t].pc = "failed_result"
    /\ lock = t
    /\ lock' = None
    /\ LET c2 == FinishResult(cache, now, threads[t].req_id, ErrorDict)
       IN  /\ cache' = c2
           /\ threads' = Refs([threads EXCEPT ![t] = [Idle EXCEPT !.ret = Raised]], c2, None)
    /\ UNCHANGED <<processing, now, runs, submitted, dropped, calls, dbVars, extVars>>

NextWrap ==
    \/ \E t \in Threads :
        \/ WCall(t)
        \/ WReadProcessing(t)
        \/ WReadResult(t)
        \/ WMark(t)
        \/ WFunc(t)
        \/ WCompletedFlag(t)
        \/ WCompletedResult(t)
        \/ WFailedFlag(t)
        \/ WFailedResult(t)
    \/ Tick

\* ------------------------------------------------------- DatabaseManager
\* faulty variant of UniqueViolation: req_id is indexed but not unique
UniqueViolation_not_unique(table, req_id) == FALSE

\* unique index on commands.req_id (db.py:67, ix_commands_req_id)
UniqueViolation(table, req_id) == \E i \in 1..Len(table) : table[i].req_id = req_id

\* session.query(Command).filter_by(req_id=req_id).first(): index of the row, 0 if none
First(table, req_id) ==
    IF \E i \in 1..Len(table) : table[i].req_id = req_id
    THEN CHOOSE i \in 1..Len(table) :
            /\ table[i].req_id = req_id
            /\ \A j \in 1..(i - 1) : table[j].req_id # req_id
    ELSE 0

\* faulty variant of AckStatus: every acknowledgment is recorded as acked
AckStatus_always_acked(success) == "acked"

\* db.py:244
AckStatus(success) == IF success THEN "acked" ELSE "failed"

\* db.py:251-252: int((utcnow() - dispatched_at).total_seconds() * 1000), clock in seconds
DurationMs(t, dispatched_at) == (t - dispatched_at) * 1000

\* the UPDATE that commit() emits: only attributes whose value differs from the
\* loaded one are written, the others keep what the table holds
Flush(current, loaded, command) ==
    [col \in DOMAIN current |->
        IF command[col] # loaded[col] THEN command[col] ELSE current[col]]

\* record_command_ack lines 244-248: the attributes set on the loaded object at time t
ack_assign(command, success, error_message, response_details, t) ==
    [command EXCEPT !.status = AckStatus(success),
                    !.acked_at = Some(t),
                    !.success = Some(success),
                    !.error_message = error_message,
                    !.response_details = OrEmpty(response_details)]

\* record_command_ack lines 250-252: the duration up to a second reading t of the clock
ack_duration(command, t) ==
    IF command.dispatched_at # Null
    THEN [command EXCEPT !.duration_ms = Some(DurationMs(t, command.dispatched_at[1]))]
    ELSE command

\* the row that a record_command_ack call running alone stores for `row`: the
\* clock reads t at line 245 and t2 at line 251
AckedRow(row, ack, t, t2) ==
    Flush(row, row, ack_duration(ack_assign(row, ack[1], ack[2], ack[3], t), t2))

\* record_command_dispatch (lines 218-234): INSERT and commit
DbDispatch(s) ==
    /\ sessions[s].pc = "idle"
    /\ calls < MaxDbCalls
    /\ calls' = calls + 1
    /\ \E req_id \in CommandReqIds, device_id \in DeviceIds :
        LET row == Command(Len(commands) + 1, req_id, device_id, "m", "api", "a1",
                           EmptyDict, now)
            me == [IdleSession EXCEPT !.call = calls + 1, !.attempts = 1,
                                      !.op = "record_command_dispatch", !.req_id = req_id]
        IN  IF UniqueViolation(commands, req_id)
            THEN /\ commands' = commands
                 /\ sessions' = [sessions EXCEPT ![s] = [me EXCEPT !.ret = IntegrityError]]
            ELSE /\ commands' = Append(commands, row)
                 /\ sessions' = [sessions EXCEPT ![s] = [me EXCEPT !.ret = Returned(Len(commands) + 1)]]
    /\ UNCHANGED <<cache, processing, now, threads, lock, runs, submitted, dropped, extVars>>

\* faulty variant of ack_lookup: a row is created for an unknown req_id
ack_lookup_upserts(table, req_id) ==
    IF First(table, req_id) = 0
    THEN [index |-> Len(table) + 1,
          commands |-> Append(table, Command(Len(table) + 1, req_id, None, None, None, None,
                                             EmptyDict, 0))]
    ELSE [index |-> First(table, req_id), commands |-> table]

\* record_command_ack line 240: the row the query loads (0 if none) and the
\* table after it
ack_lookup(table, req_id) == [index |-> First(table, req_id), commands |-> table]

\* record_command_ack lines 239-242: the SELECT
DbAckQuery(s) ==
    /\ sessions[s].pc = "idle"
    /\ calls < MaxDbCalls
    /\ calls' = calls + 1
    /\ \E req_id \in CommandReqIds, ack \in AckArgs :
        LET q == ack_lookup(commands, req_id)
            i == q.index
            me == [IdleSession EXCEPT !.call = calls + 1, !.attempts = 1,
                                      !.op = "record_command_ack", !.req_id = req_id]
        IN  /\ sessions' = [sessions EXCEPT ![s] =
                IF i = 0
                THEN [me EXCEPT !.ret = ReturnedNone]
                ELSE [me EXCEPT !.pc = "assign", !.success = ack[1],
                                !.error_message = ack[2],
                                !.response_details = ack[3],
                                !.index = i, !.loaded = q.commands[i],
                                !.command = q.commands[i]]]
            /\ commands' = q.commands
    /\ UNCHANGED <<cache, processing, now, threads, lock, runs, submitted, dropped, extVars>>

\* record_command_ack lines 244-248: the attributes are set on the loaded object
DbAckAssign(s) ==
    /\ sessions[s].pc = "assign"
    /\ LET me == sessions[s]
       IN  sessions' = [sessions EXCEPT ![s] = [me EXCEPT
                !.pc = "commit",
                !.command = ack_assign(me.command, me.success, me.error_message,
                                       me.response_details, now)]]
    /\ UNCHANGED <<cache, processing, now, wrapVars, commands, extVars>>

\* record_command_ack lines 250-256: duration, commit, refresh, return
DbAckCommit(s) ==
    /\ sessions[s].pc = "commit"
    /\ LET me == sessions[s]
           command == ack_duration(me.command, now)
           row == Flush(commands[me.index], me.loaded, command)
       IN  /\ commands' = [commands EXCEPT ![me.index] = row]
           /\ sessions' = [sessions EXCEPT ![s] =
                  [IdleSession EXCEPT !.call = me.call, !.attempts = me.attempts,
                                      !.op = me.op, !.req_id = me.req_id,
                                      !.ret = Returned(me.index)]]
    /\ UNCHANGED <<cache, processing, now, wrapVars, extVars>>

\* the clock of the database spec
NextDb ==
    \/ \E s \in Sessions :
        \/ DbDispatch(s)
        \/ DbAckQuery(s)
        \/ DbAckAssign(s)
        \/ DbAckCommit(s)
    \/ Tick

\* ------------------------------------------------- dead-letter queue: actions
\* send_to_dlq (lines 58-119)
DlqSend ==
    /\ calls < MaxDlqCalls
    /\ calls' = calls + 1
    /\ \E device_id \in DlqDevices, module_name \in DlqModules, retry_count \in RetryCounts :
        LET r == send_to_dlq(bus, calls + 1, OriginalTopic, OriginalPayload, "timeout",
                             device_id, module_name, None, retry_count)
        IN  /\ bus' = r.bus
            /\ dlq' = [n |-> calls + 1, op |-> "send_to_dlq",
                       message |-> Some(r.message), payload |-> Null]
    /\ UNCHANGED <<cache, processing, now, threads, lock, runs, submitted, dropped,
                   dbVars, retryVars, moreVars>>

\* _handle_dlq_command (lines 261-311) for a message on /lab/dlq/cmd
DlqHandleCommand ==
    /\ calls < MaxDlqCalls
    /\ calls' = calls + 1
    /\ \E payload \in DlqCommands :
        /\ bus' = handle_dlq_command(bus, payload)
        /\ dlq' = [n |-> calls + 1, op |-> "_handle_dlq_command",
                   message |-> Null, payload |-> Some(payload)]
    /\ UNCHANGED <<cache, processing, now, threads, lock, runs, submitted, dropped,
                   dbVars, retryVars, moreVars>>

NextDlq ==
    \/ DlqSend
    \/ DlqHandleCommand

\* ------------------------------------------------------------ retry: actions
\* a decorated function or RetryableOperation.execute is called
RetryCall ==
    /\ retry.pc = "idle"
    /\ \E impl \in RetryImpls, config \in RetryConfigs, max_attempts \in 0..MaxAttempts,
          jitter \in BOOLEAN :
        LET called == [IdleRetry EXCEPT
                          !.impl = impl, !.max_attempts = max_attempts,
                          !.config = [config EXCEPT !.max_attempts = max_attempts,
                                                    !.jitter = jitter]]
        IN  retry' = IF impl = "execute" THEN execute_call(called) ELSE wrapper_call(called)
    /\ UNCHANGED <<cache, processing, now, wrapVars, dbVars, dlqVars, moreVars>>

\* func is invoked once more: it returns or raises; a sleep before the next
\* attempt takes the delay drawn by calculate_delay
RetryAttempt ==
    /\ retry.pc = "loop"
    /\ \E did \in {Returns("ok")}
                  \cup {Raises(Exc(c, retry.attempt + 1)) : c \in ExceptionClasses} :
       \E u \in IF did.kind = "raise" /\ retry.config.jitter
                    /\ is_retriable_exception(retry.config, did.exception)
                    /\ retry.attempt + 1 < retry.config.max_attempts
                 THEN Jitters ELSE {0} :
        retry' = IF retry.impl = "execute"
                 THEN execute_attempt(retry, did, u)
                 ELSE wrapper_attempt(retry, did, u)
    /\ UNCHANGED <<cache, processing, now, wrapVars, dbVars, dlqVars, moreVars>>

NextRetry ==
    \/ RetryCall
    \/ RetryAttempt

\* ------------------------------------------- DatabaseManager: the other tables
\* session.add(row); session.commit(): the timestamp column defaults to utcnow()
Insert(table, device_id) ==
    /\ calls < MaxDbCalls
    /\ calls' = calls + 1
    /\ tables' = [tables EXCEPT ![table] = @ \cup {Row(calls + 1, device_id, now)}]
    /\ UNCHANGED <<cache, processing, now, threads, lock, runs, submitted, dropped,
                   dbVars, dlqVars, retryVars, cleanup, healthVars, schemaVars>>

\* upsert_device (lines 146-164): the row of the device is updated, or inserted
UpsertDevice ==
    /\ calls < MaxDbCalls
    /\ calls' = calls + 1
    /\ \E device_id \in DeviceIds :
        tables' = [tables EXCEPT !.devices =
            IF \E r \in @ : r.device_id = device_id
            THEN {IF r.device_id = device_id THEN [r EXCEPT !.timestamp = now] ELSE r : r \in @}
            ELSE @ \cup {Row(calls + 1, device_id, now)}]
    /\ UNCHANGED <<cache, processing, now, threads, lock, runs, submitted, dropped,
                   dbVars, dlqVars, retryVars, cleanup, healthVars, schemaVars>>

\* record_heartbeat (lines 204-215)
RecordHeartbeat == \E device_id \in DeviceIds : Insert("heartbeats", device_id)

\* record_module_status (lines 180-193)
RecordModuleStatus == \E device_id \in DeviceIds : Insert("module_status", device_id)

\* record_event (lines 259-274)
RecordEvent == \E device_id \in DeviceIds : Insert("events", device_id)

\* cleanup_old_records (lines 277-294)
CleanupOldRecords ==
    /\ calls < MaxDbCalls
    /\ calls' = calls + 1
    /\ \E days \in Days :
        LET r == cleanup_old_records(tables, commands, now, days)
        IN  /\ tables' = r.tables
            /\ commands' = r.commands
            /\ cleanup' = [n |-> calls + 1, days |-> days, ret |-> r.ret]
    /\ UNCHANGED <<cache, processing, now, threads, lock, runs, submitted, dropped,
                   sessions, dlqVars, retryVars, healthVars, schemaVars>>

NextCleanup ==
    \/ \E s \in Sessions : DbDispatch(s)
    \/ UpsertDevice
    \/ RecordHeartbeat
    \/ RecordModuleStatus
    \/ RecordEvent
    \/ CleanupOldRecords
    \/ Tick

\* ------------------------------------------------------------ health: actions
HealthUnchanged ==
    UNCHANGED <<cache, processing, now, wrapVars, dbVars, dlqVars, retryVars, cleanupVars,
                schemaVars, probe>>

\* the bus client connects, disconnects or breaks
MqttChange ==
    /\ \E m \in MqttStates \ {health.mqtt} : health' = [health EXCEPT !.mqtt = m]
    /\ HealthUnchanged

\* the database becomes reachable or unreachable
DatabaseChange ==
    /\ \E d \in DatabaseStates \ {health.database} : health' = [health EXCEPT !.database = d]
    /\ HealthUnchanged

\* a device is added to or removed from the registry, or the registry is
\* quiesced or released
RegistryChange ==
    /\ \E devices \in 0..MaxDevices, quiesced \in BOOLEAN :
        /\ Registry(devices, quiesced) # health.registry
        /\ \/ devices = health.registry.devices
           \/ (quiesced = health.registry.quiesced
                 /\ devices \in {health.registry.devices - 1, health.registry.devices + 1})
        /\ health' = [health EXCEPT !.registry = Registry(devices, quiesced)]
    /\ HealthUnchanged

\* check_readiness (lines 72-96)
CheckReadiness ==
    /\ health' = [health EXCEPT !.readiness = Some(check_readiness(health))]
    /\ HealthUnchanged

\* check_health (lines 33-70); the registry snapshot shows some of the devices
\* online, or the snapshot raises
CheckHealth ==
    /\ \E online \in 0..health.registry.devices, raises \in BOOLEAN :
        health' = [health EXCEPT !.status = Some(check_health(health, online, raises))]
    /\ HealthUnchanged

NextHealth ==
    \/ MqttChange
    \/ DatabaseChange
    \/ RegistryChange
    \/ CheckReadiness
    \/ CheckHealth

\* ------------------------------------------------------ StartupProbe: actions
ProbeUnchanged ==
    UNCHANGED <<cache, processing, now, wrapVars, dbVars, dlqVars, retryVars, cleanupVars,
                schemaVars, health>>

\* mark_module_loading (lines 320-322)
MarkModuleLoading ==
    /\ \E module_name \in ModuleNames : probe' = mark_module_loading(probe, module_name)
    /\ ProbeUnchanged

\* mark_module_loaded (lines 324-331)
MarkModuleLoaded ==
    /\ \E module_name \in ModuleNames, success \in BOOLEAN, error \in ErrorArgs :
        /\ Len(mark_module_loaded(probe, module_name, success, error).startup_errors)
              <= MaxStartupErrors
        /\ probe' = mark_module_loaded(probe, module_name, success, error)
    /\ ProbeUnchanged

\* mark_startup_complete (lines 333-335)
MarkStartupComplete ==
    /\ probe' = mark_startup_complete(probe)
    /\ ProbeUnchanged

NextProbe ==
    \/ MarkModuleLoading
    \/ MarkModuleLoaded
    \/ MarkStartupComplete

\* ------------------------------------------------------------ schema: actions
Validate(kind) ==
    /\ \E payload \in Payloads :
        schema' = [kind |-> kind, payload |-> payload, result |-> validate(kind, payload)]
    /\ UNCHANGED <<cache, processing, now, wrapVars, dbVars, dlqVars, retryVars,
                   cleanupVars, healthVars>>

\* validate_mqtt_command (lines 331-333)
ValidateMqttCommand == Validate("command")
\* validate_mqtt_ack (lines 336-338)
ValidateMqttAck == Validate("ack")
\* validate_device_meta (lines 341-343)
ValidateDeviceMeta == Validate("device_meta")
\* validate_device_status (lines 346-348)
ValidateDeviceStatus == Validate("device_status")
\* validate_module_status (lines 351-353)
ValidateModuleStatus == Validate("module_status")

\* validate_projector_params (schema.py:361-363)
ValidateProjectorParams ==
    /\ \E payload \in AdjustPayloads :
        schema' = [kind |-> "projector_params", payload |-> payload,
                   result |-> IF validate_projector_params(payload)
                              THEN ModelBuilt ELSE ValidationError]
    /\ UNCHANGED <<cache, processing, now, wrapVars, dbVars, dlqVars, retryVars,
                   cleanupVars, healthVars>>

\* ProjectorAdjustRequest built from a request body (models.py:186-203)
BuildProjectorAdjustRequest ==
    /\ \E payload \in AdjustPayloads :
        schema' = [kind |-> "adjust_request", payload |-> payload,
                   result |-> IF ProjectorAdjustRequest(payload)
                              THEN ModelBuilt ELSE ValidationError]
    /\ UNCHANGED <<cache, processing, now, wrapVars, dbVars, dlqVars, retryVars,
                   cleanupVars, healthVars>>

NextSchema ==
    \/ ValidateProjectorParams
    \/ BuildProjectorAdjustRequest
    \/ ValidateMqttCommand
    \/ ValidateMqttAck
    \/ ValidateDeviceMeta
    \/ ValidateDeviceStatus
    \/ ValidateModuleStatus

vars == <<cache, processing, now, threads, lock, runs, submitted, dropped, calls,
         commands, sessions, bus, dlq, retry, tables, cleanup,
         health, probe, schema>>

SpecApi == Init /\ [][NextApi]_vars

SpecWrap == Init /\ [][NextWrap]_vars

SpecDb == Init /\ [][NextDb]_vars

SpecDlq == Init /\ [][NextDlq]_vars

SpecRetry == Init /\ [][NextRetry]_vars

SpecCleanup == Init /\ [][NextCleanup]_vars

SpecHealth == Init /\ [][NextHealth]_vars

SpecSchema == Init /\ [][NextSchema]_vars

SpecProbe == Init /\ [][NextProbe]_vars

\* ==================================================================== claims

\* ---- C1 ----
\* C1: for calls of the wrapped function that all carry the same req_id and the
\* same (device, action), the body (the publish) runs at most once -- stated
\* for req_ids whose entry never expired and was never evicted.
C1_PublishOnce ==
    \A r \in ReqIds :
        (Cardinality(submitted[r]) <= 1 /\ r \notin dropped) => runs[r] <= 1

\* ---- C2 ----
\* a thread holds an accepted begin from the mark_processing that returned True
\* until it calls mark_completed / mark_failed
InFlight(t) == threads[t].pc \in {"func", "completed", "failed"}

\* C2: single-flight per req_id: at most one caller holds an accepted begin for
\* a req_id at any time.
C2_SingleFlight ==
    \A r \in ReqIds :
        Cardinality({t \in Threads : InFlight(t) /\ threads[t].req_id = r}) <= 1

\* ---- C3 ----
\* C3: after every operation the cache holds at most max_size entries.
C3_CacheBounded == Len(cache) <= max_size

\* the cache is full and a further begin of a new req_id evicts
C3_Witness ==
    /\ Len(cache) = max_size
    /\ \E r \in ReqIds \ Keys(cache) :
        LET m == mark_processing(cache, processing, now, r, "d1", "a1")
        IN  /\ m.ret
            /\ Len(m.cache) = max_size
            /\ Keys(cache) \ Keys(m.cache) # {}

\* ---- C4 ----
\* the step is the commit of a record_command_ack by session s
IsAckCommitBy(s) == sessions[s].pc = "commit" /\ sessions'[s].pc = "idle"

\* C4: record_command_ack is idempotent by req_id: a call that finds the row
\* already acknowledged returns the stored record and leaves the row unchanged.
C4_AckIdempotent ==
    [][\A s \in Sessions :
          (IsAckCommitBy(s) /\ sessions[s].loaded.acked_at # Null)
              => /\ commands'[sessions[s].index] = sessions[s].loaded
                 /\ sessions'[s].ret = Returned(sessions[s].index)]_vars

\* ---- C5 ----
Terminal == {"acked", "failed", "timeout"}

\* C5: terminal statuses are absorbing: no step changes the status or the
\* success value of a row whose status is acked, failed or timeout.
C5_TerminalAbsorbing ==
    [][\A i \in 1..Len(commands) :
          commands[i].status \in Terminal
              => /\ commands'[i].status = commands[i].status
                 /\ commands'[i].success = commands[i].success]_vars

\* ---- C6 ----
\* C6: a terminal row has a success value, true for acked and false for failed
\* and timeout; a dispatched row has no success value.
C6_StatusSuccess ==
    \A i \in 1..Len(commands) :
        LET row == commands[i]
        IN  /\ row.status \in Terminal \cup {"dispatched"}
            /\ row.status = "acked" => row.success = Some(TRUE)
            /\ row.status \in {"failed", "timeout"} => row.success = Some(FALSE)
            /\ row.status = "dispatched" => row.success = Null

\* a failed acknowledgment was recorded after a successful one on the same row
C6_Witness ==
    \E i \in 1..Len(commands), s \in Sessions :
        /\ commands[i].status = "failed"
        /\ commands[i].success = Some(FALSE)
        /\ commands[i].response_details = OkDict
        /\ sessions[s].ret = Returned(i)

\* ---- C7 ----
UniqueReqIds ==
    \A i, j \in 1..Len(commands) : commands[i].req_id = commands[j].req_id => i = j

\* the step is a record_command_dispatch by session s
IsDispatchBy(s) ==
    /\ calls' = calls + 1
    /\ sessions'[s].call = calls'
    /\ sessions'[s].op = "record_command_dispatch"

\* C7: the table holds at most one row per req_id, and a dispatch whose req_id
\* already has a row fails and leaves the table unchanged.
C7_OneRowPerReqId ==
    /\ []UniqueReqIds
    /\ [][\A s \in Sessions :
            (IsDispatchBy(s) /\ UniqueViolation(commands, sessions'[s].req_id))
                => /\ sessions'[s].ret = IntegrityError
                   /\ commands' = commands]_vars

\* a dispatch of a req_id that has a row (already acknowledged) was refused
C7_Witness ==
    \E s \in Sessions, i \in 1..Len(commands) :
        /\ sessions[s].op = "record_command_dispatch"
        /\ sessions[s].ret = IntegrityError
        /\ commands[i].req_id = sessions[s].req_id
        /\ commands[i].status = "acked"

\* ---- C8 ----
\* req_id is cached, after the expiry sweep of a check, with another (device, action)
Conflicts(req_id, info) ==
    LET s == cleanup_expired(cache, processing, now)
    IN  /\ Has(s.cache, req_id)
        /\ <<Get(s.cache, req_id).device_id, Get(s.cache, req_id).action>> # info

\* what is_duplicate returns for a req_id that is not cached
Fresh == <<FALSE, NoRecord>>

\* C8 as stated: a check of a req_id cached with a different (device, action)
\* returns something else than for a fresh req_id, and the request does not
\* replace the existing entry.
C8_ConflictReported ==
    \A r \in ReqIds : \A info \in InfosOf(r) :
        Conflicts(r, info) =>
            LET chk == is_duplicate(cache, processing, now, r, info[1], info[2])
                m == mark_processing(chk.cache, chk.processing, now, r, info[1], info[2])
            IN  /\ <<chk.dup, chk.rec>> # Fresh
                /\ Has(m.cache, r)
                /\ Get(m.cache, r).device_id = Get(cache, r).device_id
                /\ Get(m.cache, r).action = Get(cache, r).action

\* C8 amended: the check answers a req_id cached with a different
\* (device, action) exactly as a fresh one, (False, None), leaving the entry's
\* fields unchanged; the request is then handled as new: mark_processing
\* replaces the entry by a processing record with the new (device, action),
\* unless the req_id is in flight, when it returns False and changes nothing.
C8_ConflictIsFresh ==
    \A r \in ReqIds : \A info \in InfosOf(r) :
        Conflicts(r, info) =>
            LET chk == is_duplicate(cache, processing, now, r, info[1], info[2])
                m == mark_processing(chk.cache, chk.processing, now, r, info[1], info[2])
            IN  /\ <<chk.dup, chk.rec>> = Fresh
                /\ Get(chk.cache, r) = Get(cache, r)
                /\ IF r \in chk.processing
                   THEN ~m.ret /\ m.cache = chk.cache /\ m.processing = chk.processing
                   ELSE /\ m.ret
                        /\ Has(m.cache, r)
                        /\ Get(m.cache, r) = RequestRecord(r, now, info[1], info[2], None, TRUE)
                        /\ Keys(m.cache) = Keys(chk.cache)

\* a completed entry and an in-flight entry are cached, each open to a
\* submit with the other (device, action)
C8_Witness ==
    \E r, q \in ReqIds, info \in Infos :
        /\ Conflicts(r, info) /\ r \notin processing /\ Get(cache, r).result = OkDict
        /\ Conflicts(q, info) /\ q \in processing

\* ---- C9 ----
Completed(c, r) == Has(c, r) /\ ~Get(c, r).processing /\ Get(c, r).result # None

SameRequest(c, d, r) ==
    /\ Get(c, r).device_id = Get(d, r).device_id
    /\ Get(c, r).action = Get(d, r).action

\* C9: finish is terminal: an entry that mark_completed / mark_failed has
\* finished, while unexpired and still cached, never goes back to processing
\* and never loses its result -- stated for the steps that keep the entry's
\* (device_id, action).
C9_FinishTerminal ==
    [][\A r \in ReqIds :
          (/\ Completed(cache, r)
           /\ ~Expired(Get(cache, r), now)
           /\ Has(cache', r)
           /\ SameRequest(cache, cache', r))
              => Completed(cache', r)]_vars

\* ---- C10 ----
\* C10: is_duplicate never returns as a duplicate an entry whose timestamp is
\* more than ttl_seconds older than the time of the check.
C10_NoExpiredDuplicate ==
    \A r \in ReqIds : \A info \in InfosOf(r) :
        LET chk == is_duplicate(cache, processing, now, r, info[1], info[2])
        IN  chk.dup => ~Expired(chk.rec, now)

\* ---- C11 ----
\* C11: eviction is LRU: an entry that mark_processing has just re-begun is
\* the most recently used one, so the insertion of a new req_id that follows
\* immediately does not evict it while another entry is cached.
C11_EvictionIsLRU ==
    \A k \in Keys(cache), r \in ReqIds \ Keys(cache) :
        \A info \in InfosOf(k) :
            LET m1 == mark_processing(cache, processing, now, k, info[1], info[2])
                m2 == mark_processing(m1.cache, m1.processing, now, r, "d1", "a1")
            IN  (m1.ret /\ m2.ret /\ Len(m1.cache) >= 2) => Has(m2.cache, k)

\* ---- C12 ----
\* another caller holds an accepted begin for the req_id of t's submit
InFlightElsewhere(t) ==
    \E u \in Threads \ {t} : InFlight(u) /\ threads[u].req_id = threads[t].req_id

\* C12: a submit whose req_id is in flight elsewhere when the wrapper decides
\* (reads the record's processing flag or calls mark_request_processing)
\* returns {status: processing} and does not go on to run the wrapped function.
C12_InFlightNotExecuted ==
    [][\A t \in Threads :
          (/\ threads[t].pc \in {"read_processing", "mark"}
           /\ threads'[t].pc \notin {threads[t].pc, "read_result"}
           /\ InFlightElsewhere(t))
              => (threads'[t].pc = "idle" /\ threads'[t].ret = ProcessingResponse)]_vars

\* ---- C13 ----
\* C13: when the wrapped function raised, the wrapper leaves no dedup entry
\* for the req_id, and a check with the same (device, action) is not a hit.
C13_FailureRolledBack ==
    [][\A t \in Threads :
          (threads[t].pc = "failed_result" /\ threads'[t].pc = "idle")
              => LET me == threads[t]
                     chk == is_duplicate_request(cache', processing', now',
                                                 me.req_id, me.device_id, me.action)
                 IN  /\ ~Has(cache', me.req_id)
                     /\ ~chk.dup]_vars

\* ---- C14 ----
\* C14: cached-result round trip: after mark_completed(req_id, r) on an
\* in-flight entry, for every r (None and {} included), a check with the
\* entry's (device, action) is a hit returning r, and get_result returns r.
C14_ResultRoundTrip ==
    \A k \in Keys(cache) \cap processing :
        \A r \in ResultArgs :
            LET rec == Get(cache, k)
                m == mark_completed(cache, processing, now, k, r)
                chk == is_duplicate_request(m.cache, m.processing, now,
                                            k, rec.device_id, rec.action)
                g == get_result(m.cache, k)
            IN  /\ chk.dup
                /\ chk.result = r
                /\ g.ret = r

\* ---- C15 ----
\* a copy of a failure record, published by send_to_dlq
IsDlqCopy(m) == m.topic # ResponseTopic /\ m.topic[1] = "lab" /\ m.topic[2] = "dlq"

\* the records send_to_dlq has accepted
Accepted == {bus[i].payload : i \in {j \in 1..Len(bus) : IsDlqCopy(bus[j])}}

\* the step is the handling of the operator command `payload`
IsCommandStep(payload) ==
    /\ calls' = calls + 1
    /\ dlq'.n = calls'
    /\ dlq'.op = "_handle_dlq_command"
    /\ dlq'.payload = Some(payload)

\* the response to `payload` carrying `success`
RetryResponse(payload, success) ==
    [topic |-> ResponseTopic,
     payload |-> [response |-> Response(Some("retry"), payload.dlq_id, Some(success),
                                        Null, Null, Null),
                  req_id |-> ReqIdOf(payload)]]

\* C15: a retry command for an accepted record whose retry-count is below
\* max_retries republishes the original payload on the original topic, stores
\* the retry-count increased by 1 and answers success=true.
C15_RetryRepublishes ==
    [][\A payload \in DlqCommands : \A rec \in Accepted :
          (/\ IsCommandStep(payload)
           /\ payload.action = "retry"
           /\ payload.dlq_id = Some(rec.id)
           /\ rec.retry_count < max_retries)
              => /\ bus' = bus \o <<[topic |-> rec.original_topic, payload |-> rec.payload],
                                  RetryResponse(payload, TRUE)>>
                 /\ get_dlq_message(rec.id)
                        = Some([rec EXCEPT !.retry_count = @ + 1])]_vars

\* ---- C16 ----
\* records as the store would hand them to retry_message, one per retry-count
StoredRecords ==
    {DeadLetterMessage(1, OriginalTopic, OriginalPayload, "timeout", "d1", "m1", "p1", k) :
        k \in 0..max_retries}

\* number of messages republished on the original topic
Republished == Cardinality({i \in 1..Len(bus) : bus[i].topic = OriginalTopic})

\* C16: a retry of a record whose retry-count has reached max_retries is
\* refused, republishing nothing and leaving the count; a retry below the
\* limit raises the count by exactly 1, never past max_retries; no record is
\* republished more than max_retries times.
C16_RetryBounded ==
    /\ [](/\ Republished <= max_retries
          /\ \A rec \in StoredRecords :
                LET r == retry_found(bus, rec)
                IN  IF rec.retry_count >= max_retries
                    THEN ~r.ret /\ r.bus = bus /\ r.message = rec
                    ELSE /\ r.ret
                         /\ r.message.retry_count = rec.retry_count + 1
                         /\ r.message.retry_count <= max_retries)
    /\ [][\A payload \in DlqCommands : \A rec \in Accepted :
            (/\ IsCommandStep(payload)
             /\ payload.action = "retry"
             /\ payload.dlq_id = Some(rec.id)
             /\ rec.retry_count >= max_retries)
                => bus' = Append(bus, RetryResponse(payload, FALSE))]_vars

\* a retry command for an accepted record at max_retries was refused
C16_Witness ==
    /\ dlq.op = "_handle_dlq_command"
    /\ dlq.payload # Null
    /\ dlq.payload[1].action = "retry"
    /\ \E rec \in Accepted :
        /\ dlq.payload[1].dlq_id = Some(rec.id)
        /\ rec.retry_count = max_retries
    /\ bus[Len(bus)] = RetryResponse(dlq.payload[1], FALSE)
    /\ Republished = 0

\* ---- C17 ----
Responses(b) == {i \in 1..Len(b) : b[i].topic = ResponseTopic}

C18_RecordPersisted ==
    dlq.op = "send_to_dlq" =>
        LET rec == dlq.message[1]
        IN  /\ get_dlq_message(rec.id) = Some(rec)
            /\ \E i \in 1..Len(get_dlq_messages) : get_dlq_messages[i] = rec
            /\ get_dlq_stats.total_messages >= 1

\* ---- C19 ----
\* the step is a send_to_dlq
IsSendStep == calls' = calls + 1 /\ dlq'.n = calls' /\ dlq'.op = "send_to_dlq"

\* C19: send_to_dlq publishes the copy of the record on exactly one topic:
\* /lab/dlq/{device}/{module} when both are known, /lab/dlq/{device}/device
\* when only the device is known, /lab/dlq/orchestrator when neither is.
C19_TopicByScope ==
    [][IsSendStep =>
          LET rec == dlq'.message[1]
              d == rec.device_id
              m == rec.module_name
          IN  /\ Len(bus') = Len(bus) + 1
              /\ SubSeq(bus', 1, Len(bus)) = bus
              /\ bus'[Len(bus')].payload = rec
              /\ (d # None /\ m # None) => bus'[Len(bus')].topic = <<"lab", "dlq", d, m>>
              /\ (d # None /\ m = None) => bus'[Len(bus')].topic = <<"lab", "dlq", d, "device">>
              /\ (d = None /\ m = None) => bus'[Len(bus')].topic = <<"lab", "dlq", "orchestrator">>]_vars

\* a record of a known device and no module was sent
C19_Witness ==
    /\ dlq.op = "send_to_dlq"
    /\ dlq.message[1].device_id = "d1"
    /\ dlq.message[1].module_name = None
    /\ bus[Len(bus)] = [topic |-> <<"lab", "dlq", "d1", "device">>, payload |-> dlq.message[1]]

\* ---- C20 ----
RetriableFailure(did) ==
    did.kind = "raise" /\ is_retriable_exception(retry.config, did.exception)

\* C20: when every attempt fails with a retriable exception, func is invoked
\* exactly max_attempts times and RetryError is raised with the exception of
\* the final attempt and attempt_count = max_attempts; when an attempt
\* succeeds its result is returned and func is not invoked again.
C20_RetryExhaustion ==
    LET h == retry.history
    IN  /\ Len(h) <= retry.max_attempts
        /\ (retry.pc = "done" /\ Len(h) >= 1) =>
            /\ (\A i \in 1..Len(h) : RetriableFailure(h[i]))
                  => /\ Len(h) = retry.max_attempts
                     /\ retry.outcome = RetryError(h[Len(h)].exception, retry.max_attempts)
            /\ \A i \in 1..Len(h) :
                  h[i].kind = "return" => (i = Len(h) /\ retry.outcome = h[i])

\* execute exhausted two or more attempts that failed with different exceptions
C20_Witness ==
    /\ retry.pc = "done"
    /\ retry.impl = "execute"
    /\ retry.max_attempts >= 2
    /\ Len(retry.history) = retry.max_attempts
    /\ \A i \in 1..Len(retry.history) : RetriableFailure(retry.history[i])
    /\ retry.history[1].exception.class # retry.history[Len(retry.history)].exception.class
    /\ retry.outcome.kind = "RetryError"

\* ---- C21 ----
\* the exception is of a non-retriable class (whatever else it inherits from),
\* or of a class in neither list
ShortCircuits(config, exception) ==
    \/ isinstance(exception, config.non_retriable_exceptions)
    \/ ~isinstance(exception, config.retriable_exceptions)

\* C21: when an attempt raises an exception of a non-retriable class (also one
\* that is a subclass of a retriable class) or of a class in neither list, func
\* is not invoked again, no delay is taken after it, and that exception, not a
\* RetryError, reaches the caller.
C21_NonRetriableShortCircuits ==
    \A i \in 1..Len(retry.history) :
        (retry.history[i].kind = "raise"
           /\ ShortCircuits(retry.config, retry.history[i].exception))
        => /\ i = Len(retry.history)
           /\ retry.pc = "done"
           /\ retry.outcome = retry.history[i]
           /\ Len(retry.sleeps) = i - 1

\* under the database policy a ValueError, a subclass of the retriable class
\* Exception, ended the call after a retriable failure and one delay
C21_Witness ==
    /\ retry.pc = "done"
    /\ retry.config.retriable_exceptions = {"Exception"}
    /\ "ValueError" \in retry.config.non_retriable_exceptions
    /\ Len(retry.history) = 2
    /\ RetriableFailure(retry.history[1])
    /\ retry.history[2] = Raises(Exc("ValueError", 2))
    /\ retry.outcome = retry.history[2]
    /\ Len(retry.sleeps) = 1

\* ---- C22 ----
\* c = min(base_delay * exponential_base^(n-1), max_delay)
Capped(config, n) ==
    Min(config.base_delay * Pow(config.exponential_base, n - 1), config.max_delay)

\* d is within c*(1 - jitter_factor) .. c*(1 + jitter_factor), exactly c with
\* jitter disabled, and not negative
DelayInRange(config, n, d) ==
    /\ Capped(config, n) * (100 - config.jitter_factor) <= 100 * d
    /\ 100 * d <= Capped(config, n) * (100 + config.jitter_factor)
    /\ ~config.jitter => d = Capped(config, n)
    /\ d >= 0

\* C22: calculate_delay(n) for n >= 1 is within c*(1 -+ jitter_factor) of
\* c = min(base_delay * exponential_base^(n-1), max_delay); with jitter
\* disabled it is exactly c, non-decreasing in n and never above max_delay; it
\* is never negative. Stated for the configuration of the call in progress and
\* every draw of the jitter, and for the delays the call has taken.
C22_DelayWithinJitter ==
    /\ \A n \in 1..MaxDelayAttempt, u \in Jitters :
          /\ DelayInRange(retry.config, n, calculate_delay(retry.config, n, u))
          /\ ~retry.config.jitter =>
                /\ calculate_delay(retry.config, n, u) <= retry.config.max_delay
                /\ n > 1 => calculate_delay(retry.config, n - 1, u)
                               <= calculate_delay(retry.config, n, u)
    /\ \A i \in 1..Len(retry.sleeps) : DelayInRange(retry.config, i, retry.sleeps[i])

\* a call under the database policy slept a jittered delay above c, and the
\* cap max_delay binds at the largest attempt number asked about
C22_Witness ==
    /\ retry.config.jitter
    /\ Len(retry.sleeps) >= 2
    /\ retry.sleeps[2] > Capped(retry.config, 2)
    /\ retry.sleeps[1] < Capped(retry.config, 1)
    /\ retry.config.base_delay * Pow(retry.config.exponential_base, MaxDelayAttempt - 1)
          > retry.config.max_delay
    /\ calculate_delay(retry.config, MaxDelayAttempt, 0) = retry.config.max_delay

\* ---- C23 ----
\* the exception a DatabaseManager call raised to its caller
RaisedToCaller(s) == Exc(sessions[s].ret.kind, sessions[s].attempts)

\* C23: every persistence operation is run under the database retry policy: a
\* failure that the policy counts as retriable reaches the caller only after
\* the operation has been attempted max_attempts (3) times.
C23_RunUnderDatabasePolicy ==
    \A s \in Sessions :
        (sessions[s].ret = IntegrityError
           /\ is_retriable_exception(DATABASE_RETRY_CONFIG, RaisedToCaller(s)))
        => sessions[s].attempts = DATABASE_RETRY_CONFIG.max_attempts

\* ---- C24 ----
\* a step that is a call of cleanup_old_records
IsCleanupStep == cleanup'.n # cleanup.n

\* C24: cleanup_old_records(days) never deletes or modifies a row of the
\* commands table, nor of devices.
C24_CommandsRetained ==
    [][IsCleanupStep => (commands' = commands /\ tables'.devices = tables.devices)]_vars

\* the cutoff of that call
Cutoff == StartOfDay(now) - cleanup.days * DayLength

\* cleanup_old_records was the last call made, while the commands table held a
\* row dispatched before the cutoff
C24_Witness ==
    /\ cleanup.n > 0
    /\ cleanup.n = calls
    /\ \E i \in 1..Len(commands) : commands[i].dispatched_at[1] < Cutoff

\* ---- C25 ----
\* C25: after cleanup_old_records(days) no heartbeat, module-status or event
\* row with timestamp < cutoff = (start of the current UTC day) - days
\* remains, and every such row with timestamp >= cutoff is still present.
C25_PrunedToWindow ==
    [][IsCleanupStep =>
        \A table \in PrunedTables :
            tables'[table] =
                {r \in tables[table] :
                    r.timestamp >= StartOfDay(now) - cleanup'.days * DayLength}]_vars

\* ---- C26 ----
\* C26: a row that record_command_ack made terminal has acked_at >=
\* dispatched_at and duration_ms = acked_at - dispatched_at in milliseconds,
\* whatever the clock does during the operation.
C26_DurationMatchesAckedAt ==
    \A i \in 1..Len(commands) :
        commands[i].status \in {"acked", "failed"}
        => /\ commands[i].acked_at # Null
           /\ commands[i].acked_at[1] >= commands[i].dispatched_at[1]
           /\ commands[i].duration_ms
                 = Some(DurationMs(commands[i].acked_at[1], commands[i].dispatched_at[1]))

\* ---- C27 ----
\* what the engine can pass to record_command_ack when the deadline fires
TimeoutArgs == <<FALSE, Some("timeout"), None>>

\* C27: the persistence operations can take a dispatched row to status
\* timeout with success false: for a row still dispatched (no ack), some call
\* of record_command_ack, the operation that writes the status, stores it so.
C27_TimeoutRecordable ==
    \A i \in 1..Len(commands) :
        commands[i].status = "dispatched"
        => \E ack \in AckArgs \cup {TimeoutArgs} :
              /\ AckedRow(commands[i], ack, now, now).status = "timeout"
              /\ AckedRow(commands[i], ack, now, now).success = Some(FALSE)

\* ---- C28 ----
\* the columns of `row` as persisted when `ack` is recorded at time t, before
\* the deadline, and when it is recorded at t2, after the deadline d fired;
\* at the deadline the engine records the timeout through record_command_ack
\* or persists nothing
RowsAgree(row, ack, t, d, t2) ==
    \A late \in {row, AckedRow(row, TimeoutArgs, d, d)} :
        \A col \in DOMAIN row \ {"status", "duration_ms"} :
            AckedRow(row, ack, t, t)[col] = AckedRow(late, ack, t2, t2)[col]

\* C28: for the same dispatched command and the same ack, the row persisted
\* when the ack arrives before the timeout and the row persisted when it
\* arrives after the timeout are equal in every column except status and
\* duration_ms.
C28_AckBeforeOrAfterTimeout ==
    \A i \in 1..Len(commands) :
        commands[i].status = "dispatched"
        => \A ack \in AckArgs :
              \A t \in now..MaxTime, d \in now..MaxTime, t2 \in now..MaxTime :
                  (t < d /\ d <= t2) => RowsAgree(commands[i], ack, t, d, t2)

\* ---- C29 ----
\* the device registry is populated or quiesced
RegistryReady(h) == h.registry.devices > 0 \/ h.registry.quiesced

\* C29: check_readiness reports ready = true if and only if the bus client is
\* connected, the persistence probe succeeds and the device registry is
\* populated or quiesced.
C29_ReadyIffAllThree ==
    check_readiness(health).ready
        = (health.mqtt = "connected" /\ health.database = "up" /\ RegistryReady(health))

\* ---- C30 ----
\* ts is present and is an ISO-8601 timestamp
IsIso8601(ts) == ts.body = "2024-01-01T00:00:00" /\ ts.zone \in {"", "Z", "+00:00"}

\* C30: each of the five envelope validators rejects a payload whose ts is
\* missing or is not a valid ISO-8601 timestamp: an envelope returned as valid
\* has an ISO-8601 ts.
C30_TsValidated ==
    (schema.kind \in EnvelopeKinds /\ schema.result.kind = "envelope")
        => IsIso8601(schema.payload.ts)

\* ---- C31 ----
\* a command payload that passes every validator other than the params size
OtherwiseValidCommand ==
    /\ schema.kind = "command"
    /\ schema.payload.others
    /\ schema.payload.ts \notin {Absent, TsNone}
    /\ validate_timestamp(schema.payload.ts)
    /\ schema.payload.size # Null

\* C31: the command envelope validator accepts params whose serialized size is
\* exactly 64 KiB (65536 bytes) and rejects params whose serialized size is
\* 65537 bytes or more.
C31_ParamsSizeBoundary ==
    OtherwiseValidCommand =>
        /\ schema.payload.size[1] = 65536 => schema.result.kind = "envelope"
        /\ schema.payload.size[1] >= 65537 => schema.result = ValidationError

C31_Witness ==
    /\ OtherwiseValidCommand
    /\ schema.payload.size = Some(65536)
    /\ schema.result = Envelope(schema.payload)

\* ---- C32 ----
\* a keystone adjustment was validated by either projector validator
KeystoneValidated ==
    /\ schema.kind \in {"projector_params", "adjust_request"}
    /\ schema.payload.adjustment \in {"H-KEYSTONE", "V-KEYSTONE"}
    /\ schema.payload.value # Null

\* C32: for a keystone adjustment (H-KEYSTONE or V-KEYSTONE) the projector
\* validators accept the values -40 and +40 and reject -41 and +41, in both
\* ProjectorCommandParams and ProjectorAdjustRequest.
C32_KeystoneBoundary ==
    KeystoneValidated =>
        /\ schema.payload.value[1] \in {-40, 40} => schema.result = ModelBuilt
        /\ schema.payload.value[1] \in {-41, 41} => schema.result = ValidationError

C32_Witness ==
    /\ KeystoneValidated
    /\ schema.kind = "adjust_request"
    /\ schema.payload.value = Some(-40)
    /\ schema.result = ModelBuilt

\* ---- C33 ----
\* the req_ids whose cached record has processing=True
FlaggedProcessing == {cache[i].req_id : i \in {j \in 1..Len(cache) : cache[j].processing}}

\* C33: in every reachable state of RequestDeduplicator the in-flight set and
\* the cache agree: a req_id is in _processing if and only if the cache holds a
\* record for it with processing=True; consequently stats reports
\* total_cached = processing + completed.
C33_ProcessingAgreesWithCache ==
    /\ processing = FlaggedProcessing
    /\ LET st == stats(cache, processing, now)
       IN  st.total_cached = st.processing + st.completed

\* one request in flight next to a completed one, after an entry has expired
C33_Witness ==
    /\ processing # {}
    /\ \E i \in 1..Len(cache) : ~cache[i].processing /\ cache[i].result # None
    /\ Len(cache) = max_size
    /\ now > ttl_seconds

\* ---- C34 ----
\* the positions of a wrapper call that mark_processing accepted
AcceptedPcs == {"func", "completed", "completed_result", "failed", "failed_result"}

\* C34: no request stays in flight forever: whenever a call of the wrapped
\* function was accepted (mark_processing returned True) and its function body
\* returns or raises, the req_id is no longer in the processing state when the
\* call ends.
C34_ReleasedAtCallEnd ==
    [][\A t \in Threads :
        (threads[t].pc \in AcceptedPcs /\ threads'[t].pc = "idle")
            => threads[t].req_id \notin processing']_vars

\* the same for the calls whose function body returns or raises an Exception
C34_ReleasedUnlessBaseException ==
    [][\A t \in Threads :
        (threads[t].pc \in AcceptedPcs /\ threads'[t].pc = "idle"
            /\ threads'[t].ret # RaisedBaseException)
            => threads[t].req_id \notin processing']_vars

\* ---- C35 ----
\* C35: in every reachable state the cache entries are ordered by
\* non-decreasing timestamp from oldest position to newest position, so that
\* the expiry sweep, which stops at the first non-expired entry, removes every
\* expired entry.
C35_OrderedByTimestamp ==
    \A i \in 1..Len(cache) : \A j \in i..Len(cache) :
        cache[i].timestamp <= cache[j].timestamp

\* the consequence drawn from the order: after the sweep no expired entry is left
C35_SweepRemovesExpired ==
    LET s == cleanup_expired(cache, processing, now)
    IN  \A i \in 1..Len(s.cache) : ~Expired(s.cache[i], now)

\* ---- C36 ----
\* C36: the overall status computed by check_health never improves when a
\* further check fails: if both the MQTT check and the database check are
\* unhealthy the overall status is unhealthy whatever the device check returns,
\* and if exactly one of them is unhealthy the overall status is not healthy.
C36_FailuresNeverImprove ==
    health.status # Null =>
        LET r == health.status[1]
            mqtt_bad == r.checks.mqtt = "unhealthy"
            db_bad == r.checks.database = "unhealthy"
        IN  /\ (mqtt_bad /\ db_bad) => r.status = "unhealthy"
            /\ (mqtt_bad # db_bad) => r.status # "healthy"

\* the second half alone: one unhealthy check of the two is never reported healthy
C36_OneFailureNotHealthy ==
    health.status # Null =>
        LET r == health.status[1]
        IN  ((r.checks.mqtt = "unhealthy") # (r.checks.database = "unhealthy"))
                => r.status # "healthy"

\* ---- C37 ----
\* what a caller can observe of a retried call: the invocations of func, the
\* delays slept, whether the call has ended and how
Observed(st) == [pc |-> st.pc, history |-> st.history, sleeps |-> st.sleeps,
                 outcome |-> st.outcome]

\* what func can do in the next attempt
NextOutcomes ==
    {Returns("ok")} \cup {Raises(Exc(c, retry.attempt + 1)) : c \in ExceptionClasses}

\* C37: for the same RetryConfig (every max_attempts >= 0) and the same
\* sequence of attempt outcomes, the retry_sync wrapper and
\* RetryableOperation.execute behave identically: same invocations of func,
\* same delays, same final outcome -- from the same configuration both enter
\* the loop alike, and from the same point of the loop the same attempt
\* outcome and jitter draw take both to the same observable point.
C37_WrapperEqualsExecute ==
    /\ retry.pc # "idle" =>
          LET called == [IdleRetry EXCEPT !.max_attempts = retry.max_attempts,
                                          !.config = retry.config]
          IN  Observed(wrapper_call(called)) = Observed(execute_call(called))
    /\ retry.pc = "loop" =>
          \A did \in NextOutcomes : \A u \in Jitters :
              Observed(wrapper_attempt(retry, did, u)) = Observed(execute_attempt(retry, did, u))

\* the same for the calls that make at least one attempt
C37_EqualFromFirstAttempt ==
    retry.pc = "loop" =>
        \A did \in NextOutcomes : \A u \in Jitters :
            Observed(wrapper_attempt(retry, did, u)) = Observed(execute_attempt(retry, did, u))

\* ---- C38 ----
\* session s makes a record_command_ack call for a req_id that has no row
AckOfUnknown(s) ==
    /\ sessions[s].pc = "idle"
    /\ sessions'[s] # sessions[s]
    /\ sessions'[s].op = "record_command_ack"
    /\ First(commands, sessions'[s].req_id) = 0

\* C38: record_command_ack for a req_id that has no commands row returns None
\* and leaves the commands table unchanged (no row is created or modified).
C38_UnknownAckIsNoOp ==
    [][\A s \in Sessions :
          AckOfUnknown(s) => /\ sessions'[s].pc = "idle"
                             /\ sessions'[s].ret = ReturnedNone
                             /\ commands' = commands]_vars

\* an acknowledgment for q2 came back None while the table holds a row for q1
C38_Witness ==
    \E s \in Sessions :
        /\ sessions[s].op = "record_command_ack"
        /\ sessions[s].req_id = "q2"
        /\ sessions[s].ret = ReturnedNone
        /\ Len(commands) >= 1
        /\ \A i \in 1..Len(commands) : commands[i].req_id = "q1"

\* ---- C39 ----
\* startup was marked complete and every tracked module has status loaded
AllLoaded ==
    /\ probe.startup_complete
    /\ \A m \in ModuleNames : probe.module_load_status[m] \in {Untracked, "loaded"}

\* C39: for any sequence of mark_module_loading, mark_module_loaded and
\* mark_startup_complete calls, get_startup_status reports ready=true if and
\* only if startup has been marked complete and every tracked module currently
\* has status loaded (none loading, none failed); whenever ready is true the
\* reported errors list is empty.
C39_ReadyIffLoadedAndNoErrors ==
    LET r == get_startup_status(probe)
    IN  /\ r.ready = AllLoaded
        /\ r.ready => r.errors = <<>>

\* the first half alone: ready exactly when complete and every tracked module loaded
C39_ReadyIffAllLoaded ==
    get_startup_status(probe).ready = AllLoaded

====
